---- MODULE Spec2Model ----
(***************************************************************************)
(* RealtimeAudioOutputManager                                              *)
(* (src/bots/bot_controller/realtime_audio_output_manager.py):             *)
(* a FIFO of PCM frames, a lazily spawned playback thread, a pause         *)
(* deadline, and the caller threads that enqueue, pause and clean up.      *)
(*                                                                         *)
(* Time is an integer number of milliseconds: 0.05 s = 50, 1.0 s = 1000.   *)
(* A chunk is a sequence of bytes (0..255); 16-bit samples are little      *)
(* endian, signed.                                                         *)
(***************************************************************************)
EXTENDS Integers, Sequences, FiniteSets, TLC

(* ------------------------------------------------------------------ *)
(* Program constants                                                   *)
(* ------------------------------------------------------------------ *)
SAMPLE_WIDTH == 2
CHANNELS == 1
bytes_per_sample == 2
\* chunk_length_seconds = 0.1, in milliseconds
chunk_length_ms == 100
\* timeout_seconds = 10 of _process_audio_queue
timeout_seconds == 10
\* audio_queue.get(timeout=1.0), in milliseconds
get_timeout_ms == 1000
\* time.sleep(min(remaining, 0.05)), in milliseconds
poll_slice_ms == 50
\* the 0.15 s residue threshold of add_chunk, in milliseconds
stale_gap_ms == 150

IdleTimeoutMs == timeout_seconds * 1000

(* ------------------------------------------------------------------ *)
(* Bounds of the model                                                 *)
(* ------------------------------------------------------------------ *)
\* caller threads
NumCallers == 2
\* add_chunk_inner calls in a behaviour (each may spawn one worker)
MaxFrames == 2
\* add_chunk calls in a behaviour
MaxChunks == 2
\* pause_for calls in a behaviour
MaxPauses == 2
\* cleanup calls in a behaviour
MaxCleanups == 2
\* poll slices the clock can advance by, before and after the idle timeout
MaxSlices == 2
\* the clock's value at construction (time.time() is never 0)
Epoch == 1000
\* idle timeouts that can elapse in a behaviour of the restart specification
MaxRestarts == 2
\* add_chunk_inner, pause_for and cleanup calls, together, in a behaviour of the
\* whole-life specification
MaxLifeCalls == 4
\* add_chunk_inner and pause_for calls, together, in a behaviour of the pause
\* specification
MaxPauseCalls == 3

Callers == 1..NumCallers
Workers == 1..MaxFrames
\* the instants the clock takes: construction and just past the idle timeout,
\* and up to MaxSlices poll slices after each
IdleInstants == {Epoch, Epoch + IdleTimeoutMs + 1}
Instants == {t + k * poll_slice_ms : t \in IdleInstants, k \in 0..MaxSlices}
MaxTime == Epoch + IdleTimeoutMs + 1 + MaxSlices * poll_slice_ms
\* construction and one queue timeout later: no idle timeout elapses
LifeInstants == {Epoch, Epoch + get_timeout_ms}
\* construction, and one instant just past each idle timeout
RestartInstants == {Epoch + k * (IdleTimeoutMs + 1) : k \in 0..MaxRestarts}

Max(a, b) == IF a >= b THEN a ELSE b
Min(a, b) == IF a <= b THEN a ELSE b

(* ------------------------------------------------------------------ *)
(* Integer arithmetic of Python and C                                  *)
(* ------------------------------------------------------------------ *)
\* C's and int()'s division: truncation toward zero (b > 0)
TruncDiv(a, b) == IF a >= 0 THEN a \div b ELSE -((-a) \div b)

\* int(bytes_per_sample * chunk_length_seconds * sample_rate) = int(0.2 * rate)
chunk_size_bytes(sample_rate) ==
    TruncDiv(bytes_per_sample * chunk_length_ms * sample_rate, 1000)

\* Python's // and % (floor division, the remainder has the divisor's sign)
PyFloorDiv(a, b) == IF b > 0 THEN a \div b ELSE (-a) \div (-b)
PyMod(a, b) == a - b * PyFloorDiv(a, b)

\* Python's slice bounds: a[:n] and a[n:] for any integer n
SliceIndex(len, n) == IF n < 0 THEN Max(len + n, 0) ELSE Min(n, len)
Take(s, n) == SubSeq(s, 1, SliceIndex(Len(s), n))
\* a slice that starts one element too far
DropOneMore(s, n) == SubSeq(s, SliceIndex(Len(s), n) + 2, Len(s))
Drop(s, n) == SubSeq(s, SliceIndex(Len(s), n) + 1, Len(s))

(* ------------------------------------------------------------------ *)
(* 16-bit PCM                                                          *)
(* ------------------------------------------------------------------ *)
\* np.frombuffer(chunk, dtype=np.int16): little endian, two's complement
DecodeSample(lo, hi) ==
    LET u == lo + 256 * hi IN IF u >= 32768 THEN u - 65536 ELSE u

frombuffer(chunk) ==
    [i \in 1..(Len(chunk) \div 2) |-> DecodeSample(chunk[2 * i - 1], chunk[2 * i])]

\* ndarray.tobytes() of int16 samples
tobytes(samples) ==
    [i \in 1..(2 * Len(samples)) |->
        LET s == samples[(i + 1) \div 2]
            u == IF s < 0 THEN s + 65536 ELSE s
        IN IF i % 2 = 1 THEN u % 256 ELSE u \div 256]

\* np.tile(samples, ratio): [1,2,3] -> [1,2,3,1,2,3]
tile(samples, ratio) ==
    [i \in 1..(ratio * Len(samples)) |-> samples[((i - 1) % Len(samples)) + 1]]

\* np.repeat(samples, ratio): [1,2,3] -> [1,1,2,2,3,3]
repeat(samples, ratio) ==
    [i \in 1..(ratio * Len(samples)) |-> samples[((i - 1) \div ratio) + 1]]

Gcd(a, b) ==
    CHOOSE g \in 1..Max(a, b) :
        /\ a % g = 0 /\ b % g = 0
        /\ \A h \in (g + 1)..Max(a, b) : ~(a % h = 0 /\ b % h = 0)

\* audioop.ratecv(fragment, 2, 1, inrate, outrate, None): linear interpolation,
\* no carried filter state. prev, cur are the previous and current input
\* samples, d the phase, i the next input index. audioop scales the samples by
\* 2^16, divides, truncates and shifts back by 16 bits, which for rates below
\* 2^16 is the floor of (prev * d + cur * (outrate - d)) / outrate.
RECURSIVE RatecvLoop(_, _, _, _, _, _, _, _)
RatecvLoop(samples, inrate, outrate, i, d, prev, cur, out) ==
    IF d < 0
    THEN IF i > Len(samples)
         THEN out
         ELSE RatecvLoop(samples, inrate, outrate, i + 1, d + outrate,
                         cur, samples[i], out)
    ELSE LET cur_o == (prev * d + cur * (outrate - d)) \div outrate
         IN RatecvLoop(samples, inrate, outrate, i, d - inrate, prev, cur,
                       Append(out, cur_o))

Ok(b) == [err |-> "", bytes |-> b]
Raise(e) == [err |-> e, bytes |-> <<>>]

ratecv(fragment, inrate, outrate) ==
    IF Len(fragment) % (SAMPLE_WIDTH * CHANNELS) # 0
    THEN Raise("audioop.error")
    ELSE IF inrate <= 0 \/ outrate <= 0
    THEN Raise("audioop.error")
    ELSE LET g == Gcd(inrate, outrate)
         IN Ok(tobytes(RatecvLoop(frombuffer(fragment), inrate \div g,
                                  outrate \div g, 1, -(outrate \div g), 0, 0, <<>>)))

_upsample(chunk, src_rate, dst_rate) ==
    IF src_rate = dst_rate THEN Ok(chunk) ELSE ratecv(chunk, src_rate, dst_rate)

\* a converter that aims at twice the output rate
upsample_chunk_to_double_rate(chunk, sample_rate, output_rate) ==
    _upsample(chunk, sample_rate, 2 * output_rate)

\* upsample_chunk_to_output_sample_rate: the result, or the exception raised
upsample_chunk_to_output_sample_rate(chunk, sample_rate, output_rate) ==
    IF sample_rate = output_rate
    THEN Ok(chunk)
    ELSE IF sample_rate = 0
    THEN Raise("ZeroDivisionError")
    ELSE LET ratio == PyFloorDiv(output_rate, sample_rate)
         IN IF PyMod(output_rate, sample_rate) # 0 \/ ratio <= 1
            THEN _upsample(chunk, sample_rate, output_rate)
            ELSE IF Len(chunk) % 2 # 0
            THEN Raise("ValueError")
            ELSE Ok(tobytes(repeat(frombuffer(chunk), ratio)))

(* ------------------------------------------------------------------ *)
(* State                                                               *)
(* ------------------------------------------------------------------ *)
VARIABLES
    now,                    \* time.time(), milliseconds
    output_sample_rate,     \* constructor argument
    sleep_time_between_chunks_seconds,  \* constructor argument
    audio_queue,            \* queue.Queue of (chunk, sample_rate)
    audio_thread,           \* 0 (None) or the worker last created
    stop_audio_thread,
    last_chunk_time,
    thread_lock,            \* 0 (free) or the caller holding it
    pause_lock,             \* 0 (free), c (caller c) or -w (worker w)
    pause_until_timestamp,
    inner_chunk_buffer,
    worker,                 \* the threads created by _start_audio_thread
    caller,                 \* the caller threads and the call each one runs
    played,                 \* history: the calls of play_raw_audio_callback
    n_chunks,               \* history: add_chunk calls started
    n_inner_calls,          \* history: add_chunk_inner calls started
    n_puts,                 \* history: frames put on the queue
    n_pauses,               \* history: pause_for calls started
    n_cleanups,             \* history: cleanup calls started
    cancelled,              \* history: frames put and unplayed when a cleanup began
    quiet,                  \* history: a cleanup returned and no add_chunk began since
    pause_log               \* history: the writes of pause_until_timestamp

vars == <<now, output_sample_rate, sleep_time_between_chunks_seconds, audio_queue,
          audio_thread, stop_audio_thread, last_chunk_time, thread_lock, pause_lock,
          pause_until_timestamp, inner_chunk_buffer, worker, caller, played,
          n_chunks, n_inner_calls, n_puts, n_pauses, n_cleanups, cancelled, quiet,
          pause_log>>

config == <<output_sample_rate, sleep_time_between_chunks_seconds>>
history == <<n_chunks, n_inner_calls, n_puts, n_pauses, n_cleanups, cancelled, quiet, pause_log>>

\* resets: the place in pause_log of the last cleanup that had returned when
\* the frame was put (0 when none had)
NoFrame == [id |-> 0, chunk |-> <<>>, rate |-> 0, gate |-> 0, restart |-> FALSE,
            resets |-> 0]
\* what the polls of _wait_if_paused saw while the worker held its frame: the
\* deadline at the first poll (-1 before it), the deadline and the remaining
\* pause at the last poll (-1 before it)
NoPoll == [first |-> -1, seen |-> 0, rem |-> -1]
\* why: how the thread left its loop ("idle", "stop" or "exception")
NoWorker == [pc |-> "none", item |-> NoFrame, out |-> <<>>, wake |-> 0,
             end_time |-> 0, t |-> 0, exc |-> "", why |-> "", poll |-> NoPoll]
\* restart: the add_chunk_inner call began after the last worker had ended on
\* the idle timeout;
\* again: the call is a cleanup that began after a cleanup had returned, with no
\* add_chunk begun since and no other call running;
\* settings, env, dflt, threshold: the thresholds an auto-pause decision is given
\* (a set is empty when the value is absent) and the one it resolved;
\* msg, seconds: the duration a control message carries, in milliseconds, and
\* the argument its handler gives to pause_for, in seconds (a fraction <<n, d>>);
\* residue, stale, buffered, forwarded: of an add_chunk call, the buffer it
\* found, whether line 53 found the gap too long, the bytes buffered after the
\* append of line 57 and the frames handed to add_chunk_inner so far
\* sent: the bytes the call has put on the queue so far
Idle == [pc |-> "idle", op |-> "", chunk |-> <<>>, rate |-> 0, frame |-> <<>>,
         d |-> 0, t |-> 0, target |-> 0, restart |-> FALSE, again |-> FALSE,
         settings |-> {}, env |-> {}, dflt |-> 0, threshold |-> 0,
         msg |-> 0, seconds |-> <<0, 1>>, residue |-> <<>>, stale |-> FALSE,
         buffered |-> 0, forwarded |-> 0, sent |-> <<>>]

\* a thread that never reports itself alive
NeverAlive(w) == FALSE

\* threading.Thread.is_alive(): started and not yet terminated
is_alive(w) == worker[w].pc \notin {"none", "unstarted", "dead"}
\* a liveness test that only asks whether a thread was ever created
ThreadMissing == audio_thread = 0

\* self.audio_thread is None or not self.audio_thread.is_alive()
NoLiveThread == audio_thread = 0 \/ ~is_alive(audio_thread)

PlayedIds == {played[i].id : i \in 1..Len(played)}

\* the thread last created has ended, and it ended on the idle timeout of line 110
AfterIdleExit ==
    /\ audio_thread # 0
    /\ worker[audio_thread].pc = "dead"
    /\ worker[audio_thread].why = "idle"

\* RealtimeAudioOutputManager.__init__ with the given arguments
Constructed(rate, sleep) ==
    /\ now = Epoch
    /\ output_sample_rate = rate
    /\ sleep_time_between_chunks_seconds = sleep
    /\ audio_queue = <<>>
    /\ audio_thread = 0
    /\ stop_audio_thread = FALSE
    /\ last_chunk_time = Epoch
    /\ thread_lock = 0
    /\ pause_lock = 0
    /\ pause_until_timestamp = 0
    /\ inner_chunk_buffer = <<>>
    /\ worker = [w \in Workers |-> NoWorker]
    /\ caller = [c \in Callers |-> Idle]
    /\ played = <<>>
    /\ n_chunks = 0
    /\ n_inner_calls = 0
    /\ n_puts = 0
    /\ n_pauses = 0
    /\ n_cleanups = 0
    /\ cancelled = {}
    /\ quiet = FALSE
    /\ pause_log = <<>>

(* ------------------------------------------------------------------ *)
(* The clock                                                           *)
(* ------------------------------------------------------------------ *)
Tick(t) ==
    /\ t > now
    /\ now' = t
    /\ UNCHANGED <<config, audio_queue, audio_thread, stop_audio_thread,
                   last_chunk_time, thread_lock, pause_lock, pause_until_timestamp,
                   inner_chunk_buffer, worker, caller, played, history>>

(* ------------------------------------------------------------------ *)
(* add_chunk_inner and _start_audio_thread, one caller thread c        *)
(* ------------------------------------------------------------------ *)
Goto(c, pc) == caller' = [caller EXCEPT ![c].pc = pc]
Return(c) == caller' = [caller EXCEPT ![c] = Idle]

CallAddChunkInner(c, chunk, sample_rate) ==
    /\ caller[c].pc = "idle"
    /\ n_inner_calls < MaxFrames
    /\ caller' = [caller EXCEPT ![c] = [Idle EXCEPT !.pc = "aci_put",
                      !.op = "add_chunk_inner", !.frame = chunk, !.rate = sample_rate,
                      !.restart = AfterIdleExit]]
    /\ n_inner_calls' = n_inner_calls + 1
    /\ quiet' = FALSE
    /\ UNCHANGED <<n_chunks, now, config, audio_queue, audio_thread, stop_audio_thread,
                   last_chunk_time, thread_lock, pause_lock, pause_until_timestamp,
                   inner_chunk_buffer, worker, played, n_puts, n_pauses, n_cleanups,
                   cancelled, pause_log>>

\* the place in pause_log of the last cleanup that returned
LastReset ==
    LET S == {i \in 1..Len(pause_log) : pause_log[i].op = "cleanup"}
    IN IF S = {} THEN 0 ELSE CHOOSE i \in S : \A j \in S : j <= i

\* self.audio_queue.put((chunk, sample_rate))
QueuePut(q, item) == Append(q, item)

AciPut(c) ==
    /\ caller[c].pc = "aci_put"
    /\ audio_queue' = QueuePut(audio_queue,
                         [id |-> n_puts + 1, chunk |-> caller[c].frame,
                          rate |-> caller[c].rate, gate |-> pause_until_timestamp,
                          restart |-> caller[c].restart, resets |-> LastReset])
    /\ n_puts' = n_puts + 1
    /\ caller' = [caller EXCEPT ![c] = [@ EXCEPT !.pc = "aci_clock",
                      !.sent = @ \o caller[c].frame]]
    /\ UNCHANGED <<n_chunks, now, config, audio_thread, stop_audio_thread, last_chunk_time,
                   thread_lock, pause_lock, pause_until_timestamp, inner_chunk_buffer,
                   worker, played, n_inner_calls, n_pauses, n_cleanups, cancelled,
                   quiet, pause_log>>

\* where add_chunk_inner returns to: the loop of add_chunk, or the caller
AfterInner(c) ==
    IF caller[c].op = "add_chunk"
    THEN [caller[c] EXCEPT !.pc = "ac_rest"]
    ELSE Idle

\* lines 53, 55 and 66: time.time() returns; the reading stays in the thread
\* until the next step of the thread uses it
ClockRead(c) ==
    /\ caller[c].pc \in {"ac_clock", "ac_now", "aci_clock"}
    /\ caller' = [caller EXCEPT ![c] = [@ EXCEPT !.t = now,
                      !.pc = CASE @ = "ac_clock" -> "ac_stale"
                               [] @ = "ac_now" -> "ac_append"
                               [] OTHER -> "aci_time"]]
    /\ UNCHANGED <<now, config, audio_queue, audio_thread, stop_audio_thread,
                   last_chunk_time, thread_lock, pause_lock, pause_until_timestamp,
                   inner_chunk_buffer, worker, played, history>>

\* line 66: the reading of the clock is stored
AciTime(c) ==
    /\ caller[c].pc = "aci_time"
    /\ last_chunk_time' = caller[c].t
    /\ caller' = [caller EXCEPT ![c] = [@ EXCEPT !.pc = "aci_check", !.t = 0]]
    /\ UNCHANGED <<now, config, audio_queue, audio_thread, stop_audio_thread,
                   thread_lock, pause_lock, pause_until_timestamp, inner_chunk_buffer,
                   worker, played, history>>

\* line 69: the unlocked liveness check
AciCheck(c) ==
    /\ caller[c].pc = "aci_check"
    /\ caller' = [caller EXCEPT ![c] =
                     IF NoLiveThread THEN [@ EXCEPT !.pc = "aci_lock"] ELSE AfterInner(c)]
    /\ UNCHANGED <<now, config, audio_queue, audio_thread, stop_audio_thread,
                   last_chunk_time, thread_lock, pause_lock, pause_until_timestamp,
                   inner_chunk_buffer, worker, played, history>>

\* line 73: with self.thread_lock
AciLock(c) ==
    /\ caller[c].pc = "aci_lock"
    /\ thread_lock = 0
    /\ thread_lock' = c
    /\ Goto(c, "aci_recheck")
    /\ UNCHANGED <<now, config, audio_queue, audio_thread, stop_audio_thread,
                   last_chunk_time, pause_lock, pause_until_timestamp,
                   inner_chunk_buffer, worker, played, history>>

\* a spawn that does not look at the thread again under the lock
SpawnUnchecked == TRUE

\* line 74: the liveness check under the lock; when a thread is alive the
\* with-block ends and the lock is released
SpawnNeeded == NoLiveThread

AciRecheck(c) ==
    /\ caller[c].pc = "aci_recheck"
    /\ IF SpawnNeeded
       THEN /\ Goto(c, "sat_stop")
            /\ UNCHANGED thread_lock
       ELSE /\ caller' = [caller EXCEPT ![c] = AfterInner(c)]
            /\ thread_lock' = 0
    /\ UNCHANGED <<now, config, audio_queue, audio_thread, stop_audio_thread,
                   last_chunk_time, pause_lock, pause_until_timestamp,
                   inner_chunk_buffer, worker, played, history>>

\* line 80: self.stop_audio_thread = False
SatStop(c) ==
    /\ caller[c].pc = "sat_stop"
    /\ stop_audio_thread' = FALSE
    /\ Goto(c, "sat_new")
    /\ UNCHANGED <<now, config, audio_queue, audio_thread, last_chunk_time,
                   thread_lock, pause_lock, pause_until_timestamp, inner_chunk_buffer,
                   worker, played, history>>

NewWorker == CHOOSE w \in Workers : worker[w].pc = "none" /\
                 \A v \in Workers : worker[v].pc = "none" => w <= v

\* line 81: self.audio_thread = threading.Thread(...), not yet started
SatNew(c) ==
    /\ caller[c].pc = "sat_new"
    /\ audio_thread' = NewWorker
    /\ worker' = [worker EXCEPT ![NewWorker].pc = "unstarted"]
    /\ Goto(c, "sat_start")
    /\ UNCHANGED <<now, config, audio_queue, stop_audio_thread, last_chunk_time,
                   thread_lock, pause_lock, pause_until_timestamp, inner_chunk_buffer,
                   played, history>>

\* line 82: self.audio_thread.start(); the thread runs from here on, while the
\* caller is still inside the with-block of line 73
SatStart(c) ==
    /\ caller[c].pc = "sat_start"
    /\ worker' = [worker EXCEPT ![audio_thread].pc = "loop"]
    /\ Goto(c, "sat_end")
    /\ UNCHANGED <<now, config, audio_queue, audio_thread, stop_audio_thread,
                   last_chunk_time, thread_lock, pause_lock, pause_until_timestamp,
                   inner_chunk_buffer, played, history>>

\* line 76, then the with-block of line 73 ends and add_chunk_inner returns
SatEnd(c) ==
    /\ caller[c].pc = "sat_end"
    /\ thread_lock' = 0
    /\ caller' = [caller EXCEPT ![c] = AfterInner(c)]
    /\ UNCHANGED <<now, config, audio_queue, audio_thread, stop_audio_thread,
                   last_chunk_time, pause_lock, pause_until_timestamp,
                   inner_chunk_buffer, worker, played, history>>

(* ------------------------------------------------------------------ *)
(* _process_audio_queue, one worker thread w                           *)
(* ------------------------------------------------------------------ *)
WGoto(w, pc) == worker' = [worker EXCEPT ![w].pc = pc]

\* a lock that lets every thread in
PauseLockIgnored == TRUE

\* with self.pause_lock (lines 154, 166, 171): the lock can be taken
PauseLockFree == pause_lock = 0

\* self.pause_until_timestamp - time.time(), then max(remaining, 0.0)
_remaining_pause_time == Max(pause_until_timestamp - now, 0)

\* line 88: while not self.stop_audio_thread; then get(timeout=1.0) begins
WLoop(w) ==
    /\ worker[w].pc = "loop"
    /\ worker' = [worker EXCEPT ![w] =
                     IF stop_audio_thread
                     THEN [@ EXCEPT !.pc = "exiting", !.why = "stop"]
                     ELSE [@ EXCEPT !.pc = "get", !.wake = now + get_timeout_ms]]
    /\ UNCHANGED <<now, config, audio_queue, audio_thread, stop_audio_thread,
                   last_chunk_time, thread_lock, pause_lock, pause_until_timestamp,
                   inner_chunk_buffer, caller, played, history>>

\* a queue handing out its newest item first
QueueGetNewest(q) == q[Len(q)]

\* what queue.get returns, and what it leaves on the queue
QueueGet(q) == Head(q)
QueueRest(q) == Tail(q)

\* line 91: an item arrives within the timeout
WGet(w) ==
    /\ worker[w].pc = "get"
    /\ audio_queue # <<>>
    /\ worker' = [worker EXCEPT ![w] =
                     [@ EXCEPT !.pc = "convert", !.item = QueueGet(audio_queue), !.wake = 0]]
    /\ audio_queue' = QueueRest(audio_queue)
    /\ UNCHANGED <<now, config, audio_thread, stop_audio_thread, last_chunk_time,
                   thread_lock, pause_lock, pause_until_timestamp, inner_chunk_buffer,
                   caller, played, history>>

\* line 91 raises queue.Empty after the timeout
WGetTimeout(w) ==
    /\ worker[w].pc = "get"
    /\ audio_queue = <<>>
    /\ now >= worker[w].wake
    /\ worker' = [worker EXCEPT ![w] = [@ EXCEPT !.pc = "empty", !.wake = 0]]
    /\ UNCHANGED <<now, config, audio_queue, audio_thread, stop_audio_thread,
                   last_chunk_time, thread_lock, pause_lock, pause_until_timestamp,
                   inner_chunk_buffer, caller, played, history>>

\* lines 107-109: the except branch finds self.last_chunk_time set and
\* time.time() returns; the reading stays in the thread
WEmpty(w) ==
    /\ worker[w].pc = "empty"
    /\ worker' = [worker EXCEPT ![w] =
                     IF last_chunk_time # 0
                     THEN [@ EXCEPT !.pc = "idle_test", !.t = now]
                     ELSE [@ EXCEPT !.pc = "loop"]]
    /\ UNCHANGED <<now, config, audio_queue, audio_thread, stop_audio_thread,
                   last_chunk_time, thread_lock, pause_lock, pause_until_timestamp,
                   inner_chunk_buffer, caller, played, history>>

\* line 109: time.time() - self.last_chunk_time > timeout_seconds, t the clock
\* reading
IdleExpired(t) == t - last_chunk_time > IdleTimeoutMs

\* lines 109-111: the idle test with the timestamp as it is now; break or continue
WIdleTest(w) ==
    /\ worker[w].pc = "idle_test"
    /\ worker' = [worker EXCEPT ![w] =
                     IF IdleExpired(worker[w].t)
                     THEN [@ EXCEPT !.pc = "exiting", !.why = "idle", !.t = 0]
                     ELSE [@ EXCEPT !.pc = "loop", !.t = 0]]
    /\ UNCHANGED <<now, config, audio_queue, audio_thread, stop_audio_thread,
                   last_chunk_time, thread_lock, pause_lock, pause_until_timestamp,
                   inner_chunk_buffer, caller, played, history>>

\* what an exception raised inside the while loop does to the worker: only
\* queue.Empty is caught, anything else leaves _process_audio_queue
Uncaught(wrec, e) == [wrec EXCEPT !.pc = "exiting", !.exc = e, !.item = NoFrame,
                                  !.out = <<>>, !.why = "exception", !.poll = NoPoll]

\* line 94
WConvert(w) ==
    /\ worker[w].pc = "convert"
    /\ LET r == upsample_chunk_to_output_sample_rate(worker[w].item.chunk,
                    worker[w].item.rate, output_sample_rate)
       IN worker' = [worker EXCEPT ![w] =
                        IF r.err # ""
                        THEN Uncaught(@, r.err)
                        ELSE [@ EXCEPT !.pc = "wait", !.out = r.bytes]]
    /\ UNCHANGED <<now, config, audio_queue, audio_thread, stop_audio_thread,
                   last_chunk_time, thread_lock, pause_lock, pause_until_timestamp,
                   inner_chunk_buffer, caller, played, history>>

\* _wait_if_paused, line 176: while not self.stop_audio_thread
WWait(w) ==
    /\ worker[w].pc = "wait"
    /\ WGoto(w, IF stop_audio_thread THEN "check" ELSE "wait_lock")
    /\ UNCHANGED <<now, config, audio_queue, audio_thread, stop_audio_thread,
                   last_chunk_time, thread_lock, pause_lock, pause_until_timestamp,
                   inner_chunk_buffer, caller, played, history>>

\* _remaining_pause_time, line 171: with self.pause_lock
WWaitLock(w) ==
    /\ worker[w].pc = "wait_lock"
    /\ PauseLockFree
    /\ pause_lock' = -w
    /\ WGoto(w, "wait_rem")
    /\ UNCHANGED <<now, config, audio_queue, audio_thread, stop_audio_thread,
                   last_chunk_time, thread_lock, pause_until_timestamp,
                   inner_chunk_buffer, caller, played, history>>

\* a wait that ends at its first poll whatever the poll finds
PauseNotAwaited(remaining) == TRUE

\* lines 172-173 and 178-180: read the remaining pause, release the lock, then
\* leave the wait or sleep one slice
PauseClear(remaining) == remaining <= 0

\* the record of a poll that found `remaining`
Polled(poll, remaining) ==
    [first |-> IF poll.first = -1 THEN pause_until_timestamp ELSE poll.first,
     seen |-> pause_until_timestamp, rem |-> remaining]

WWaitRem(w) ==
    /\ worker[w].pc = "wait_rem"
    /\ pause_lock' = 0
    /\ LET remaining == _remaining_pause_time
       IN worker' = [worker EXCEPT ![w] =
                        IF PauseClear(remaining)
                        THEN [@ EXCEPT !.pc = "check", !.poll = Polled(@, remaining)]
                        ELSE [@ EXCEPT !.pc = "wait_sleep",
                                       !.poll = Polled(@, remaining),
                                       !.wake = now + Min(remaining, poll_slice_ms)]]
    /\ UNCHANGED <<now, config, audio_queue, audio_thread, stop_audio_thread,
                   last_chunk_time, thread_lock, pause_until_timestamp,
                   inner_chunk_buffer, caller, played, history>>

\* line 180: time.sleep returns
WWaitSleep(w) ==
    /\ worker[w].pc = "wait_sleep"
    /\ now >= worker[w].wake
    /\ worker' = [worker EXCEPT ![w] = [@ EXCEPT !.pc = "wait", !.wake = 0]]
    /\ UNCHANGED <<now, config, audio_queue, audio_thread, stop_audio_thread,
                   last_chunk_time, thread_lock, pause_lock, pause_until_timestamp,
                   inner_chunk_buffer, caller, played, history>>

\* lines 98-99: if self.stop_audio_thread: break
WCheck(w) ==
    /\ worker[w].pc = "check"
    /\ worker' = [worker EXCEPT ![w] =
                     IF stop_audio_thread
                     THEN [@ EXCEPT !.pc = "exiting", !.item = NoFrame, !.out = <<>>,
                                    !.why = "stop", !.poll = NoPoll]
                     ELSE [@ EXCEPT !.pc = "play"]]
    /\ UNCHANGED <<now, config, audio_queue, audio_thread, stop_audio_thread,
                   last_chunk_time, thread_lock, pause_lock, pause_until_timestamp,
                   inner_chunk_buffer, caller, played, history>>

\* line 102: the sink is called with the converted bytes; it returns or raises
AfterSink(wrec, raises) ==
    IF raises
    THEN Uncaught(wrec, "SinkError")
    ELSE [wrec EXCEPT !.pc = "pace", !.item = NoFrame, !.out = <<>>, !.poll = NoPoll]

WPlay(w, raises) ==
    /\ worker[w].pc = "play"
    /\ played' = Append(played, [id |-> worker[w].item.id, bytes |-> worker[w].out,
                                 sample_rate |-> output_sample_rate, at |-> now,
                                 gate |-> worker[w].item.gate, raised |-> raises,
                                 quiet |-> quiet, chunk |-> worker[w].item.chunk,
                                 rate |-> worker[w].item.rate, by |-> w,
                                 restart |-> worker[w].item.restart,
                                 poll |-> worker[w].poll,
                                 resets |-> worker[w].item.resets])
    /\ worker' = [worker EXCEPT ![w] = AfterSink(@, raises)]
    /\ UNCHANGED <<now, config, audio_queue, audio_thread, stop_audio_thread,
                   last_chunk_time, thread_lock, pause_lock, pause_until_timestamp,
                   inner_chunk_buffer, caller, history>>

\* _sleep_with_interrupts, lines 183-186
WPace(w) ==
    /\ worker[w].pc = "pace"
    /\ LET total == sleep_time_between_chunks_seconds * chunk_length_ms
       IN worker' = [worker EXCEPT ![w] =
                        IF total <= 0
                        THEN [@ EXCEPT !.pc = "loop"]
                        ELSE [@ EXCEPT !.pc = "pace_stop", !.end_time = now + total]]
    /\ UNCHANGED <<now, config, audio_queue, audio_thread, stop_audio_thread,
                   last_chunk_time, thread_lock, pause_lock, pause_until_timestamp,
                   inner_chunk_buffer, caller, played, history>>

\* line 187: while not self.stop_audio_thread
WPaceStop(w) ==
    /\ worker[w].pc = "pace_stop"
    /\ worker' = [worker EXCEPT ![w] =
                     IF stop_audio_thread
                     THEN [@ EXCEPT !.pc = "loop", !.end_time = 0]
                     ELSE [@ EXCEPT !.pc = "pace_lock"]]
    /\ UNCHANGED <<now, config, audio_queue, audio_thread, stop_audio_thread,
                   last_chunk_time, thread_lock, pause_lock, pause_until_timestamp,
                   inner_chunk_buffer, caller, played, history>>

\* line 188 -> line 171: with self.pause_lock
WPaceLock(w) ==
    /\ worker[w].pc = "pace_lock"
    /\ PauseLockFree
    /\ pause_lock' = -w
    /\ WGoto(w, "pace_rem")
    /\ UNCHANGED <<now, config, audio_queue, audio_thread, stop_audio_thread,
                   last_chunk_time, thread_lock, pause_until_timestamp,
                   inner_chunk_buffer, caller, played, history>>

\* a sleep that only its end time ends
PaceOverAtEnd(remaining) == remaining <= 0

\* lines 188-194: a pending pause ends the sleep, so does the end time
PaceOver(remaining) == _remaining_pause_time > 0 \/ remaining <= 0

\* lines 188-196: leave the sleep, or sleep one slice
WPaceRem(w) ==
    /\ worker[w].pc = "pace_rem"
    /\ pause_lock' = 0
    /\ LET remaining == worker[w].end_time - now
       IN worker' = [worker EXCEPT ![w] =
                        IF PaceOver(remaining)
                        THEN [@ EXCEPT !.pc = "loop", !.end_time = 0]
                        ELSE [@ EXCEPT !.pc = "pace_sleep",
                                       !.wake = now + Min(remaining, poll_slice_ms)]]
    /\ UNCHANGED <<now, config, audio_queue, audio_thread, stop_audio_thread,
                   last_chunk_time, thread_lock, pause_until_timestamp,
                   inner_chunk_buffer, caller, played, history>>

\* line 196: time.sleep returns
WPaceSleep(w) ==
    /\ worker[w].pc = "pace_sleep"
    /\ now >= worker[w].wake
    /\ worker' = [worker EXCEPT ![w] = [@ EXCEPT !.pc = "pace_stop", !.wake = 0]]
    /\ UNCHANGED <<now, config, audio_queue, audio_thread, stop_audio_thread,
                   last_chunk_time, thread_lock, pause_lock, pause_until_timestamp,
                   inner_chunk_buffer, caller, played, history>>

\* line 113 and the end of the thread: is_alive() turns False
WExit(w) ==
    /\ worker[w].pc = "exiting"
    /\ WGoto(w, "dead")
    /\ UNCHANGED <<now, config, audio_queue, audio_thread, stop_audio_thread,
                   last_chunk_time, thread_lock, pause_lock, pause_until_timestamp,
                   inner_chunk_buffer, caller, played, history>>

(* ------------------------------------------------------------------ *)
(* add_chunk, one caller thread c                                      *)
(* ------------------------------------------------------------------ *)
\* line 51: the call begins; no lock is taken, so calls of two threads overlap
CallAddChunk(c, chunk, sample_rate) ==
    /\ caller[c].pc = "idle"
    /\ n_chunks < MaxChunks
    /\ n_chunks' = n_chunks + 1
    /\ caller' = [caller EXCEPT ![c] = [Idle EXCEPT !.pc = "ac_clock",
                      !.op = "add_chunk", !.chunk = chunk, !.rate = sample_rate]]
    /\ quiet' = FALSE
    /\ UNCHANGED <<now, config, audio_queue, audio_thread, stop_audio_thread,
                   last_chunk_time, thread_lock, pause_lock, pause_until_timestamp,
                   inner_chunk_buffer, worker, played, n_inner_calls, n_puts,
                   n_pauses, n_cleanups, cancelled, pause_log>>

\* a test that also finds a gap of exactly 150 ms too long
StaleAtGap(t) == t - last_chunk_time >= stale_gap_ms

\* line 53: time.time() - self.last_chunk_time > 0.15, t the clock reading
Stale(t) == t - last_chunk_time > stale_gap_ms

\* lines 53-54: the test of the gap, and the residue dropped after a gap
AcStale(c) ==
    /\ caller[c].pc = "ac_stale"
    /\ inner_chunk_buffer' = IF Stale(caller[c].t) THEN <<>> ELSE inner_chunk_buffer
    /\ caller' = [caller EXCEPT ![c] = [@ EXCEPT !.pc = "ac_now", !.t = 0,
                      !.residue = inner_chunk_buffer, !.stale = Stale(caller[c].t)]]
    /\ UNCHANGED <<now, config, audio_queue, audio_thread, stop_audio_thread,
                   last_chunk_time, thread_lock, pause_lock, pause_until_timestamp,
                   worker, played, history>>

\* lines 55-57: the reading of the clock is stored, the chunk is appended
AcAppend(c) ==
    /\ caller[c].pc = "ac_append"
    /\ inner_chunk_buffer' = inner_chunk_buffer \o caller[c].chunk
    /\ last_chunk_time' = caller[c].t
    /\ caller' = [caller EXCEPT ![c] = [@ EXCEPT !.pc = "ac_loop", !.t = 0,
                      !.buffered = Len(inner_chunk_buffer')]]
    /\ UNCHANGED <<now, config, audio_queue, audio_thread, stop_audio_thread,
                   thread_lock, pause_lock, pause_until_timestamp, worker, played,
                   history>>

\* a loop that leaves a whole frame in the buffer
HasFrameStrict(buffer, sample_rate) == Len(buffer) > chunk_size_bytes(sample_rate)

\* line 59: while len(self.inner_chunk_buffer) >= chunk_size_bytes
HasFrame(buffer, sample_rate) == Len(buffer) >= chunk_size_bytes(sample_rate)

\* line 59: the loop test; the call returns when no whole frame is buffered
AcLoop(c) ==
    /\ caller[c].pc = "ac_loop"
    /\ IF HasFrame(inner_chunk_buffer, caller[c].rate)
       THEN Goto(c, "ac_slice")
       ELSE Return(c)
    /\ UNCHANGED <<now, config, audio_queue, audio_thread, stop_audio_thread,
                   last_chunk_time, thread_lock, pause_lock, pause_until_timestamp,
                   inner_chunk_buffer, worker, played, history>>

\* line 60: the slice self.inner_chunk_buffer[:chunk_size_bytes] of the buffer
\* as it is now, and the call of add_chunk_inner with it
AcSlice(c) ==
    /\ caller[c].pc = "ac_slice"
    /\ n_inner_calls < MaxFrames
    /\ caller' = [caller EXCEPT ![c] = [@ EXCEPT !.pc = "aci_put",
           !.frame = Take(inner_chunk_buffer, chunk_size_bytes(caller[c].rate)),
           !.restart = AfterIdleExit, !.forwarded = @ + 1]]
    /\ n_inner_calls' = n_inner_calls + 1
    /\ UNCHANGED <<n_chunks, now, config, audio_queue, audio_thread, stop_audio_thread,
                   last_chunk_time, thread_lock, pause_lock, pause_until_timestamp,
                   inner_chunk_buffer, worker, played, n_puts, n_pauses, n_cleanups,
                   cancelled, quiet, pause_log>>

\* line 61: self.inner_chunk_buffer = self.inner_chunk_buffer[chunk_size_bytes:]
AcRest(c) ==
    /\ caller[c].pc = "ac_rest"
    /\ inner_chunk_buffer' = Drop(inner_chunk_buffer, chunk_size_bytes(caller[c].rate))
    /\ caller' = [caller EXCEPT ![c] = [@ EXCEPT !.pc = "ac_loop", !.frame = <<>>]]
    /\ UNCHANGED <<now, config, audio_queue, audio_thread, stop_audio_thread,
                   last_chunk_time, thread_lock, pause_lock, pause_until_timestamp,
                   worker, played, history>>

(* ------------------------------------------------------------------ *)
(* pause_for, one caller thread c                                      *)
(* ------------------------------------------------------------------ *)
\* a test that sends a duration of 0 on to the store
NoPauseNegative(duration) == duration < 0

\* line 162: if duration_seconds <= 0
NoPause(duration) == duration <= 0

\* lines 162-165: a non-positive duration returns at once; else the deadline
\* is computed from the clock before the lock is taken
CallPauseFor(c, duration) ==
    /\ caller[c].pc = "idle"
    /\ n_pauses < MaxPauses
    /\ now + duration <= MaxTime
    /\ n_pauses' = n_pauses + 1
    /\ caller' = [caller EXCEPT ![c] =
                     IF NoPause(duration)
                     THEN Idle
                     ELSE [Idle EXCEPT !.pc = "pf_lock", !.op = "pause_for",
                                       !.d = duration, !.t = now + duration]]
    /\ UNCHANGED <<n_chunks, now, config, audio_queue, audio_thread, stop_audio_thread,
                   last_chunk_time, thread_lock, pause_lock, pause_until_timestamp,
                   inner_chunk_buffer, worker, played, n_inner_calls, n_puts,
                   n_cleanups, cancelled, quiet, pause_log>>

\* line 166: with self.pause_lock
PfLock(c) ==
    /\ caller[c].pc = "pf_lock"
    /\ PauseLockFree
    /\ pause_lock' = c
    /\ Goto(c, "pf_body")
    /\ UNCHANGED <<now, config, audio_queue, audio_thread, stop_audio_thread,
                   last_chunk_time, thread_lock, pause_until_timestamp,
                   inner_chunk_buffer, worker, played, history>>

\* a request that replaces the deadline whatever it was
Overwritten(current, pause_until) == pause_until

\* lines 167-168: the deadline after a request for pause_until
Extended(current, pause_until) ==
    IF pause_until > current THEN pause_until ELSE current

\* the record of a pause_for call that ends leaving the deadline at `after`
PauseLogged(c, after) ==
    Append(pause_log, [op |-> "pause_for", at |-> caller[c].t - caller[c].d,
                       d |-> caller[c].d, before |-> pause_until_timestamp,
                       after |-> after])

\* line 167: the comparison; when the request does not change the deadline the
\* with-block ends, the lock is released and pause_for returns
PfBody(c) ==
    /\ caller[c].pc = "pf_body"
    /\ IF Extended(pause_until_timestamp, caller[c].t) # pause_until_timestamp
       THEN /\ Goto(c, "pf_store")
            /\ UNCHANGED <<pause_lock, pause_log>>
       ELSE /\ pause_lock' = 0
            /\ pause_log' = PauseLogged(c, pause_until_timestamp)
            /\ Return(c)
    /\ UNCHANGED <<n_chunks, now, config, audio_queue, audio_thread, stop_audio_thread,
                   last_chunk_time, thread_lock, pause_until_timestamp,
                   inner_chunk_buffer, worker, played, n_inner_calls, n_puts, n_pauses,
                   n_cleanups, cancelled, quiet>>

\* line 168: the store; the with-block ends and pause_for returns
PfStore(c) ==
    /\ caller[c].pc = "pf_store"
    /\ pause_until_timestamp' = caller[c].t
    /\ pause_lock' = 0
    /\ pause_log' = PauseLogged(c, caller[c].t)
    /\ Return(c)
    /\ UNCHANGED <<n_chunks, now, config, audio_queue, audio_thread, stop_audio_thread,
                   last_chunk_time, thread_lock, inner_chunk_buffer, worker, played,
                   n_inner_calls, n_puts, n_pauses, n_cleanups, cancelled, quiet>>

(* ------------------------------------------------------------------ *)
(* The controller's auto-pause decision, one caller thread c.          *)
(* Its code is not in src/: it is modelled from sections 4.5 and 6 of  *)
(* the specification and from the tests that call it.                  *)
(* ------------------------------------------------------------------ *)
\* the fixed window of an auto-pause, in milliseconds (its value is not stated)
FIXED_AUTOPAUSE_DURATION == 50

\* make_pcm_chunk(sample_value, repeat) of the tests
make_pcm_chunk(sample_value, n) == tobytes([i \in 1..n |-> sample_value])

Abs(x) == IF x < 0 THEN -x ELSE x

\* the loudness of a chunk: the peak amplitude of its 16-bit samples
Loudness(chunk) ==
    LET samples == frombuffer(chunk)
    IN IF samples = <<>> THEN 0
       ELSE CHOOSE m \in {Abs(samples[i]) : i \in 1..Len(samples)} :
                \A i \in 1..Len(samples) : Abs(samples[i]) <= m

\* a resolution that lets the environment override the per-instance setting
EnvironmentFirst(settings, env, dflt) ==
    IF env # {} THEN CHOOSE v \in env : TRUE
    ELSE IF settings # {} THEN CHOOSE v \in settings : TRUE
    ELSE dflt

\* the threshold: the per-instance setting, else the environment override, else
\* the built-in default
ResolveThreshold(settings, env, dflt) ==
    IF settings # {} THEN CHOOSE v \in settings : TRUE
    ELSE IF env # {} THEN CHOOSE v \in env : TRUE
    ELSE dflt

\* a decision that pauses on every chunk
AlwaysMet(chunk, threshold) == TRUE

\* the loudness meets the threshold
ThresholdMet(chunk, threshold) == Loudness(chunk) >= threshold

\* maybe_pause_realtime_audio_due_to_mixed_audio(chunk) begins: the threshold
\* is resolved
CallMaybePause(c, chunk, settings, env, dflt) ==
    /\ caller[c].pc = "idle"
    /\ n_pauses < MaxPauses
    /\ now + FIXED_AUTOPAUSE_DURATION <= MaxTime
    /\ caller' = [caller EXCEPT ![c] = [Idle EXCEPT !.pc = "mp_decide",
                      !.op = "maybe_pause", !.chunk = chunk, !.settings = settings,
                      !.env = env, !.dflt = dflt,
                      !.threshold = ResolveThreshold(settings, env, dflt)]]
    /\ UNCHANGED <<now, config, audio_queue, audio_thread, stop_audio_thread,
                   last_chunk_time, thread_lock, pause_lock, pause_until_timestamp,
                   inner_chunk_buffer, worker, played, history>>

\* the decision: pause_for(FIXED_AUTOPAUSE_DURATION) is called (its lines
\* 162-165 run) when the threshold is met, else the decision returns
MpDecide(c) ==
    /\ caller[c].pc = "mp_decide"
    /\ IF ThresholdMet(caller[c].chunk, caller[c].threshold)
       THEN /\ n_pauses' = n_pauses + 1
            /\ caller' = [caller EXCEPT ![c] = [@ EXCEPT !.pc = "pf_lock",
                              !.d = FIXED_AUTOPAUSE_DURATION,
                              !.t = now + FIXED_AUTOPAUSE_DURATION]]
       ELSE /\ Return(c)
            /\ UNCHANGED n_pauses
    /\ UNCHANGED <<n_chunks, now, config, audio_queue, audio_thread, stop_audio_thread,
                   last_chunk_time, thread_lock, pause_lock, pause_until_timestamp,
                   inner_chunk_buffer, worker, played, n_inner_calls, n_puts,
                   n_cleanups, cancelled, quiet, pause_log>>

(* ------------------------------------------------------------------ *)
(* The controller's handler of a pause control message, one caller     *)
(* thread c. Its code is not in src/: it is modelled from section 6 of *)
(* the specification and from the test that calls it.                  *)
(* ------------------------------------------------------------------ *)
\* the milliseconds in one second: the divisor of the handler
MS_PER_SECOND == 1000

\* a handler that hands the milliseconds to pause_for as they are
DurationUnconverted(duration_ms) == <<duration_ms, 1>>

\* data["duration"] / 1000: the seconds, as the fraction of two integers
DurationSeconds(duration_ms) == <<duration_ms, MS_PER_SECOND>>

\* a number of seconds on the clock of the model, which counts milliseconds
SecondsToClock(s) == (s[1] * 1000) \div s[2]

\* on_message_from_websocket_audio(message) begins with a message whose trigger
\* is the pause command and whose data carry the duration
CallOnMessage(c, duration_ms) ==
    /\ caller[c].pc = "idle"
    /\ n_pauses < MaxPauses
    /\ now + duration_ms <= MaxTime
    /\ caller' = [caller EXCEPT ![c] = [Idle EXCEPT !.pc = "om_pause",
                      !.op = "on_message", !.msg = duration_ms]]
    /\ UNCHANGED <<now, config, audio_queue, audio_thread, stop_audio_thread,
                   last_chunk_time, thread_lock, pause_lock, pause_until_timestamp,
                   inner_chunk_buffer, worker, played, history>>

\* the handler converts the duration and calls pause_for with it (lines 162-165
\* of pause_for run: a non-positive duration returns at once)
OmPause(c) ==
    /\ caller[c].pc = "om_pause"
    /\ n_pauses' = n_pauses + 1
    /\ LET seconds == DurationSeconds(caller[c].msg)
           duration == SecondsToClock(seconds)
       IN caller' = [caller EXCEPT ![c] =
                        IF duration <= 0
                        THEN Idle
                        ELSE [@ EXCEPT !.pc = "pf_lock", !.seconds = seconds,
                                       !.d = duration, !.t = now + duration]]
    /\ UNCHANGED <<n_chunks, now, config, audio_queue, audio_thread, stop_audio_thread,
                   last_chunk_time, thread_lock, pause_lock, pause_until_timestamp,
                   inner_chunk_buffer, worker, played, n_inner_calls, n_puts,
                   n_cleanups, cancelled, quiet, pause_log>>

(* ------------------------------------------------------------------ *)
(* cleanup, one caller thread c                                        *)
(* ------------------------------------------------------------------ *)
CallCleanup(c) ==
    /\ caller[c].pc = "idle"
    /\ n_cleanups < MaxCleanups
    /\ n_cleanups' = n_cleanups + 1
    /\ caller' = [caller EXCEPT ![c] = [Idle EXCEPT !.pc = "cl_stop", !.op = "cleanup",
                      !.again = quiet /\ \A o \in Callers : caller[o].pc = "idle"]]
    /\ UNCHANGED <<n_chunks, now, config, audio_queue, audio_thread, stop_audio_thread,
                   last_chunk_time, thread_lock, pause_lock, pause_until_timestamp,
                   inner_chunk_buffer, worker, played, n_inner_calls, n_puts,
                   n_pauses, cancelled, quiet, pause_log>>

\* line 140: self.stop_audio_thread = True
ClStop(c) ==
    /\ caller[c].pc = "cl_stop"
    /\ stop_audio_thread' = TRUE
    /\ cancelled' = cancelled \cup ((1..n_puts) \ PlayedIds)
    /\ Goto(c, "cl_drain")
    /\ UNCHANGED <<n_chunks, now, config, audio_queue, audio_thread, last_chunk_time,
                   thread_lock, pause_lock, pause_until_timestamp, inner_chunk_buffer,
                   worker, played, n_inner_calls, n_puts, n_pauses, n_cleanups, quiet,
                   pause_log>>

\* lines 143-147, one iteration: empty() and get_nowait() on the queue
ClDrain(c) ==
    /\ caller[c].pc = "cl_drain"
    /\ IF audio_queue = <<>>
       THEN /\ Goto(c, "cl_alive")
            /\ UNCHANGED audio_queue
       ELSE /\ audio_queue' = QueueRest(audio_queue)
            /\ UNCHANGED caller
    /\ UNCHANGED <<now, config, audio_thread, stop_audio_thread, last_chunk_time,
                   thread_lock, pause_lock, pause_until_timestamp, inner_chunk_buffer,
                   worker, played, history>>

\* a cleanup that never waits for the thread
JoinSkipped == FALSE

\* line 150: if self.audio_thread and self.audio_thread.is_alive()
JoinNeeded == audio_thread # 0 /\ is_alive(audio_thread)

ClAlive(c) ==
    /\ caller[c].pc = "cl_alive"
    /\ Goto(c, IF JoinNeeded THEN "cl_join" ELSE "cl_lock")
    /\ UNCHANGED <<now, config, audio_queue, audio_thread, stop_audio_thread,
                   last_chunk_time, thread_lock, pause_lock, pause_until_timestamp,
                   inner_chunk_buffer, worker, played, history>>

\* line 151: self.audio_thread is read again and join() begins; joining a
\* thread that was created and not started raises RuntimeError out of cleanup
ClJoin(c) ==
    /\ caller[c].pc = "cl_join"
    /\ caller' = [caller EXCEPT ![c] =
                     IF worker[audio_thread].pc = "unstarted"
                     THEN Idle
                     ELSE [@ EXCEPT !.pc = "cl_joining", !.target = audio_thread]]
    /\ UNCHANGED <<now, config, audio_queue, audio_thread, stop_audio_thread,
                   last_chunk_time, thread_lock, pause_lock, pause_until_timestamp,
                   inner_chunk_buffer, worker, played, history>>

\* line 151: join() returns when the joined thread has terminated
ClJoined(c) ==
    /\ caller[c].pc = "cl_joining"
    /\ worker[caller[c].target].pc = "dead"
    /\ caller' = [caller EXCEPT ![c] = [@ EXCEPT !.pc = "cl_lock", !.target = 0]]
    /\ UNCHANGED <<now, config, audio_queue, audio_thread, stop_audio_thread,
                   last_chunk_time, thread_lock, pause_lock, pause_until_timestamp,
                   inner_chunk_buffer, worker, played, history>>

\* line 154: with self.pause_lock
ClLock(c) ==
    /\ caller[c].pc = "cl_lock"
    /\ PauseLockFree
    /\ pause_lock' = c
    /\ Goto(c, "cl_reset")
    /\ UNCHANGED <<now, config, audio_queue, audio_thread, stop_audio_thread,
                   last_chunk_time, thread_lock, pause_until_timestamp,
                   inner_chunk_buffer, worker, played, history>>

\* a cleanup that leaves the deadline as it is
PauseKept == pause_until_timestamp

\* line 155: the deadline cleanup stores
PauseCleared == 0

\* line 155, and cleanup returns
ClReset(c) ==
    /\ caller[c].pc = "cl_reset"
    /\ pause_until_timestamp' = PauseCleared
    /\ pause_lock' = 0
    /\ pause_log' = Append(pause_log, [op |-> "cleanup", at |-> 0, d |-> 0,
                                       before |-> pause_until_timestamp, after |-> 0])
    /\ quiet' = TRUE
    /\ Return(c)
    /\ UNCHANGED <<n_chunks, now, config, audio_queue, audio_thread, stop_audio_thread,
                   last_chunk_time, thread_lock, inner_chunk_buffer, worker, played,
                   n_inner_calls, n_puts, n_pauses, n_cleanups, cancelled>>

(* ------------------------------------------------------------------ *)
(* Specifications                                                      *)
(* ------------------------------------------------------------------ *)
\* the (chunk, sample_rate) arguments of add_chunk_inner: a well-formed frame at
\* the output rate; an odd number of bytes at half the output rate; a frame
\* labelled with rate 0
GoodInput == <<(<<1, 0>>), 20>>
OddInput == <<(<<1, 0, 2>>), 10>>
ZeroRateInput == <<(<<1, 0>>), 0>>
PauseDurations == {-50, 50, 150}

\* the worker, but for the pacing sleep's loop (no step of it when the sleep is 0)
WorkerStep(w) ==
    \/ WLoop(w) \/ WGet(w) \/ WGetTimeout(w) \/ WEmpty(w) \/ WIdleTest(w)
    \/ WConvert(w)
    \/ WWait(w) \/ WWaitLock(w) \/ WWaitRem(w) \/ WCheck(w)
    \/ WPace(w) \/ WExit(w)

PaceStep(w) == WPaceStop(w) \/ WPaceLock(w) \/ WPaceRem(w) \/ WPaceSleep(w)

InnerStep(c) ==
    \/ AciPut(c) \/ ClockRead(c) \/ AciTime(c) \/ AciCheck(c) \/ AciLock(c) \/ AciRecheck(c)
    \/ SatStop(c) \/ SatNew(c) \/ SatStart(c) \/ SatEnd(c)

PauseStep(c) == PfLock(c) \/ PfBody(c) \/ PfStore(c)

CleanupStep(c) ==
    \/ ClStop(c) \/ ClDrain(c) \/ ClAlive(c) \/ ClJoin(c) \/ ClJoined(c)
    \/ ClLock(c) \/ ClReset(c)

\* Enqueue, cleanup and the worker; the sink returns or raises; nobody pauses
Init == Constructed(20, 0)

Next ==
    \/ \E t \in IdleInstants : Tick(t)
    \/ \E c \in Callers, a \in {GoodInput, OddInput, ZeroRateInput} : CallAddChunkInner(c, a[1], a[2])
    \/ \E c \in Callers : CallCleanup(c)
    \/ \E c \in Callers : InnerStep(c)
    \/ \E c \in Callers : CleanupStep(c)
    \/ \E w \in Workers : WorkerStep(w)
    \/ \E w \in Workers, raises \in BOOLEAN : WPlay(w, raises)

Spec == Init /\ [][Next]_vars

\* The pause gate alone: concurrent pause_for calls and cleanup, no frames
GateNext ==
    \/ \E t \in Instants : Tick(t)
    \/ \E c \in Callers, d \in PauseDurations : CallPauseFor(c, d)
    \/ \E c \in Callers : PauseStep(c)
    \/ \E c \in Callers : CallCleanup(c)
    \/ \E c \in Callers : ClStop(c) \/ ClDrain(c) \/ ClAlive(c) \/ ClLock(c) \/ ClReset(c)

SpecGate == Init /\ [][GateNext]_vars

\* Pause, enqueue and the worker: caller 1 pauses, the other callers enqueue,
\* MaxPauseCalls calls in all; the sink returns normally, nobody cleans up
PauseNext ==
    \/ \E t \in Instants : Tick(t)
    \/ \E c \in Callers \ {1} :
          /\ n_inner_calls + n_pauses < MaxPauseCalls
          /\ CallAddChunkInner(c, GoodInput[1], GoodInput[2])
    \/ \E d \in PauseDurations :
          /\ n_inner_calls + n_pauses < MaxPauseCalls
          /\ CallPauseFor(1, d)
    \/ \E c \in Callers : InnerStep(c)
    \/ \E c \in Callers : PauseStep(c)
    \/ \E w \in Workers : WorkerStep(w)
    \/ \E w \in Workers : WWaitSleep(w)
    \/ \E w \in Workers : WPlay(w, FALSE)

SpecPause == Init /\ [][PauseNext]_vars

\* add_chunk called from every caller thread, so that calls overlap on the
\* buffer, and the worker; the sink returns normally.
\* Rate 10 gives frames of 2 bytes; rates 4 and -10 give the frame sizes 0
\* (int(0.8)) and -2
ChunkInputs == {<<1, 0>>, <<3, 0, 4>>}
ChunkRates == {10, 4, -10}

ChunkNext ==
    \/ \E t \in IdleInstants : Tick(t)
    \/ \E c \in Callers, b \in ChunkInputs, r \in ChunkRates : CallAddChunk(c, b, r)
    \/ \E c \in Callers : AcStale(c) \/ AcAppend(c) \/ AcLoop(c) \/ AcSlice(c) \/ AcRest(c)
    \/ \E c \in Callers : InnerStep(c)
    \/ \E w \in Workers : WorkerStep(w)
    \/ \E w \in Workers : WPlay(w, FALSE)

SpecChunk == Init /\ [][ChunkNext]_vars

\* Idle exits and restarts: add_chunk, called by one producer thread, with frames
\* of 2 and 4 bytes, the worker, and a clock that jumps past the idle timeout; the
\* sink returns normally
IdleRates == {10, 20}

IdleNext ==
    \/ \E t \in RestartInstants : Tick(t)
    \/ \E b \in ChunkInputs, r \in IdleRates : CallAddChunk(1, b, r)
    \/ \E c \in Callers : AcStale(c) \/ AcAppend(c) \/ AcLoop(c) \/ AcSlice(c) \/ AcRest(c)
    \/ \E c \in Callers : InnerStep(c)
    \/ \E w \in Workers : WorkerStep(w)
    \/ \E w \in Workers : WPlay(w, FALSE)

SpecIdle == Init /\ [][IdleNext]_vars

\* The stale gap: add_chunk, called by one producer thread, with frames of 2 and
\* 4 bytes and the worker, on a clock that stops at the gap of 150 ms, 1 ms after
\* it, at the queue timeout and past the idle timeout; the sink returns normally
StaleInstants == {Epoch, Epoch + stale_gap_ms, Epoch + stale_gap_ms + 1,
                  Epoch + get_timeout_ms, Epoch + IdleTimeoutMs + 1}

StaleNext ==
    \/ \E t \in StaleInstants : Tick(t)
    \/ \E b \in ChunkInputs, r \in IdleRates : CallAddChunk(1, b, r)
    \/ \E c \in Callers : AcStale(c) \/ AcAppend(c) \/ AcLoop(c) \/ AcSlice(c) \/ AcRest(c)
    \/ \E c \in Callers : InnerStep(c)
    \/ \E w \in Workers : WorkerStep(w)
    \/ \E w \in Workers : WPlay(w, FALSE)

SpecStale == Init /\ [][StaleNext]_vars

\* Two sources: add_chunk, called by one producer thread, is fed three bytes at
\* rate 10 and three bytes at rate 20; the bytes supplied at rate 10 are below 10 and
\* those supplied at rate 20 are above, so that a byte tells the rate it was
\* supplied at; the clock and the worker are those of the stale gap
MixNext ==
    \/ \E t \in StaleInstants : Tick(t)
    \/ \E a \in {<<(<<1, 2, 3>>), 10>>, <<(<<11, 12, 13>>), 20>>} : CallAddChunk(1, a[1], a[2])
    \/ \E c \in Callers : AcStale(c) \/ AcAppend(c) \/ AcLoop(c) \/ AcSlice(c) \/ AcRest(c)
    \/ \E c \in Callers : InnerStep(c)
    \/ \E w \in Workers : WorkerStep(w)
    \/ \E w \in Workers : WPlay(w, FALSE)

SpecMix == Init /\ [][MixNext]_vars

\* Conversion: managers built for two output rates; one caller feeds add_chunk
\* with whole 16-bit samples at rates that take the identity path, the
\* repetition path (ratios 2 and 4) and the audioop path (ratios 3/2, 2/3 and
\* 3/4); the sink returns normally
OutputRates == {20, 40}
SourceRates == {10, 20, 30}
\* samples 1, -1 and -32768, 258, 3
ConvertChunks == {<<1, 0, 255, 255>>, <<0, 128, 2, 1, 3, 0>>}

ConvertNext ==
    \/ \E t \in IdleInstants : Tick(t)
    \/ \E b \in ConvertChunks, r \in SourceRates : CallAddChunk(1, b, r)
    \/ AcStale(1) \/ AcAppend(1) \/ AcLoop(1) \/ AcSlice(1) \/ AcRest(1)
    \/ InnerStep(1)
    \/ \E w \in Workers : WorkerStep(w)
    \/ \E w \in Workers : WPlay(w, FALSE)

SpecConvert == (\E rate \in OutputRates : Constructed(rate, 0)) /\ [][ConvertNext]_vars

\* Auto-pause: any caller hands a chunk of constant amplitude to the decision,
\* with or without a per-instance threshold and an environment threshold
Amplitudes == {800, 1300, 2000, 2200}
SettingsThresholds == {{}, {1500}}
EnvThresholds == {{}, {1200}}
DefaultThresholds == {1000, 3000}

AutoNext ==
    \/ \E t \in LifeInstants : Tick(t)
    \/ \E c \in Callers, a \in Amplitudes, s \in SettingsThresholds,
          v \in EnvThresholds, d \in DefaultThresholds :
          CallMaybePause(c, make_pcm_chunk(a, 2), s, v, d)
    \/ \E c \in Callers : MpDecide(c)
    \/ \E c \in Callers : PauseStep(c)

SpecAuto == Init /\ [][AutoNext]_vars

\* Control messages: any caller hands a pause command to the handler, with the
\* duration of the test (1500 ms), a shorter one and none at all
MessageDurations == {0, 250, 1500}

MessageNext ==
    \/ \E t \in LifeInstants : Tick(t)
    \/ \E c \in Callers, d \in MessageDurations : CallOnMessage(c, d)
    \/ \E c \in Callers : OmPause(c)
    \/ \E c \in Callers : PauseStep(c)

SpecMessage == Init /\ [][MessageNext]_vars

\* Pacing: managers built with the delay multipliers 0 and 1 (no sleep, and a
\* sleep of 100 ms after each frame); caller 1 requests one pause and runs one
\* cleanup, the other callers enqueue frames; the clock advances by poll slices
\* and stays short of the queue timeout, so no get times out; the sink returns
\* normally
PaceSleeps == {0, 1}
PaceDurations == {150}
PaceInstants == {Epoch + k * poll_slice_ms : k \in 0..MaxSlices}

\* the worker on a clock that stays short of the queue timeout
PaceWorkerStep(w) ==
    \/ WLoop(w) \/ WGet(w) \/ WConvert(w)
    \/ WWait(w) \/ WWaitLock(w) \/ WWaitRem(w) \/ WWaitSleep(w) \/ WCheck(w)
    \/ WPace(w) \/ PaceStep(w) \/ WExit(w)

PaceInit == \E sleep \in PaceSleeps : Constructed(20, sleep)

PaceNext ==
    \/ \E t \in PaceInstants : Tick(t)
    \/ \E c \in Callers \ {1} : CallAddChunkInner(c, GoodInput[1], GoodInput[2])
    \/ \E d \in PaceDurations : n_pauses = 0 /\ CallPauseFor(1, d)
    \/ n_cleanups = 0 /\ CallCleanup(1)
    \/ \E c \in Callers : InnerStep(c)
    \/ \E c \in Callers : PauseStep(c)
    \/ \E c \in Callers : CleanupStep(c)
    \/ \E w \in Workers : PaceWorkerStep(w)
    \/ \E w \in Workers : WPlay(w, FALSE)

SpecPace == PaceInit /\ [][PaceNext]_vars

\* Every operation together: every caller enqueues frames, caller 1 also
\* requests pauses of 50 ms and runs cleanups, MaxLifeCalls calls in all; the
\* worker paces its frames 100 ms apart, waits out the pauses, leaves on the idle
\* timeout and is spawned again; the clock stops at construction, at the end of
\* the first pacing sleep, just past the idle timeout and two poll slices later;
\* the sink returns normally
OrderNext ==
    \/ \E t \in IdleInstants \cup {Epoch + chunk_length_ms, MaxTime} : Tick(t)
    \/ \E c \in Callers :
          /\ n_inner_calls + n_pauses + n_cleanups < MaxLifeCalls
          /\ CallAddChunkInner(c, GoodInput[1], GoodInput[2])
    \/ /\ n_inner_calls + n_pauses + n_cleanups < MaxLifeCalls
       /\ CallPauseFor(1, poll_slice_ms)
    \/ /\ n_inner_calls + n_pauses + n_cleanups < MaxLifeCalls
       /\ CallCleanup(1)
    \/ \E c \in Callers : InnerStep(c)
    \/ \E c \in Callers : PauseStep(c)
    \/ \E c \in Callers : CleanupStep(c)
    \/ \E w \in Workers : WorkerStep(w)
    \/ \E w \in Workers : WWaitSleep(w)
    \/ \E w \in Workers : PaceStep(w)
    \/ \E w \in Workers : WPlay(w, FALSE)

SpecOrder == Constructed(20, 1) /\ [][OrderNext]_vars

\* Lazy start: caller 1 requests one pause and runs one cleanup, caller 2
\* feeds add_chunk with chunks that complete a frame or
\* not; the sink returns normally and the clock stays short of the idle timeout
LazyNext ==
    \/ \E t \in LifeInstants : Tick(t)
    \/ \E b \in ChunkInputs, r \in IdleRates : CallAddChunk(2, b, r)
    \/ \E d \in PaceDurations : n_pauses = 0 /\ CallPauseFor(1, d)
    \/ n_cleanups = 0 /\ CallCleanup(1)
    \/ \E c \in Callers : AcStale(c) \/ AcAppend(c) \/ AcLoop(c) \/ AcSlice(c) \/ AcRest(c)
    \/ \E c \in Callers : InnerStep(c)
    \/ \E c \in Callers : PauseStep(c)
    \/ \E c \in Callers : CleanupStep(c)
    \/ \E w \in Workers : WorkerStep(w)
    \/ \E w \in Workers : WWaitSleep(w)
    \/ \E w \in Workers : WPlay(w, FALSE)

SpecLazy == Init /\ [][LazyNext]_vars

\* The two locks: every caller may enqueue a frame, request one pause and run
\* one cleanup, so that callers and the worker contend for both locks; the clock
\* advances by one poll slice and no get times out; the sink returns normally
LockInstants == {Epoch, Epoch + poll_slice_ms}

\* the worker of a manager built without a pacing sleep, on a clock that stays
\* short of the queue timeout
LockWorkerStep(w) ==
    \/ WLoop(w) \/ WGet(w) \/ WConvert(w)
    \/ WWait(w) \/ WWaitLock(w) \/ WWaitRem(w) \/ WWaitSleep(w) \/ WCheck(w)
    \/ WPace(w) \/ WExit(w)

LockNext ==
    \/ \E t \in LockInstants : Tick(t)
    \/ \E c \in Callers : CallAddChunkInner(c, GoodInput[1], GoodInput[2])
    \/ \E c \in Callers, d \in PaceDurations : n_pauses = 0 /\ CallPauseFor(c, d)
    \/ \E c \in Callers : n_cleanups = 0 /\ CallCleanup(c)
    \/ \E c \in Callers : InnerStep(c)
    \/ \E c \in Callers : PauseStep(c)
    \/ \E c \in Callers : CleanupStep(c)
    \/ \E w \in Workers : LockWorkerStep(w)
    \/ \E w \in Workers : WPlay(w, FALSE)

SpecLocks == Init /\ [][LockNext]_vars

\* Requests that pause nothing: caller 1 calls pause_for with a negative, a
\* zero and a positive duration and runs one cleanup, caller 2 feeds
\* add_chunk with 3 bytes at rate 10 (one frame of 2 bytes and 1 byte left); the
\* sink returns normally and the clock stays short of the idle timeout
NoopNext ==
    \/ \E t \in LifeInstants : Tick(t)
    \/ CallAddChunk(2, OddInput[1], OddInput[2])
    \/ \E d \in {-50, 0, 150} : CallPauseFor(1, d)
    \/ n_cleanups = 0 /\ CallCleanup(1)
    \/ \E c \in Callers : AcStale(c) \/ AcAppend(c) \/ AcLoop(c) \/ AcSlice(c) \/ AcRest(c)
    \/ \E c \in Callers : InnerStep(c)
    \/ \E c \in Callers : PauseStep(c)
    \/ \E c \in Callers : CleanupStep(c)
    \/ \E w \in Workers : WorkerStep(w)
    \/ \E w \in Workers : WWaitSleep(w)
    \/ \E w \in Workers : WPlay(w, FALSE)

SpecNoop == Init /\ [][NoopNext]_vars

\* Frame sizes that are not a whole number of samples: managers built for the
\* output rates 15 and 20; one caller feeds add_chunk with two or three 16-bit
\* samples at rates 5, 10 and 15, whose frames have 1, 2 and 3 bytes (as 11025 Hz
\* gives frames of 2205 bytes); the sink returns normally
SampleNext ==
    \/ \E t \in IdleInstants : Tick(t)
    \/ \E b \in ConvertChunks, r \in {5, 10, 15} : CallAddChunk(1, b, r)
    \/ AcStale(1) \/ AcAppend(1) \/ AcLoop(1) \/ AcSlice(1) \/ AcRest(1)
    \/ InnerStep(1)
    \/ \E w \in Workers : WorkerStep(w)
    \/ \E w \in Workers : WPlay(w, FALSE)

SpecSample == (\E rate \in {15, 20} : Constructed(rate, 0)) /\ [][SampleNext]_vars

\* The whole life of a manager: caller 1 requests pauses and runs cleanups, the
\* other callers enqueue frames, the worker waits out the pauses; the sink
\* returns normally and the clock stays short of the idle timeout; MaxLifeCalls
\* calls in all
LifeDurations == {50, 150}

LifeNext ==
    \/ \E t \in LifeInstants : Tick(t)
    \/ \E c \in Callers \ {1} :
          /\ n_inner_calls + n_pauses + n_cleanups < MaxLifeCalls
          /\ CallAddChunkInner(c, GoodInput[1], GoodInput[2])
    \/ \E d \in LifeDurations :
          /\ n_inner_calls + n_pauses + n_cleanups < MaxLifeCalls
          /\ CallPauseFor(1, d)
    \/ /\ n_inner_calls + n_pauses + n_cleanups < MaxLifeCalls
       /\ CallCleanup(1)
    \/ \E c \in Callers : InnerStep(c)
    \/ \E c \in Callers : PauseStep(c)
    \/ \E c \in Callers : CleanupStep(c)
    \/ \E w \in Workers : WorkerStep(w)
    \/ \E w \in Workers : WWaitSleep(w)
    \/ \E w \in Workers : WPlay(w, FALSE)

SpecLife == Init /\ [][LifeNext]_vars

\* A pause shorter than the pacing sleep: managers as for pacing; caller 1
\* requests one pause of 50 or 150 ms, the other callers enqueue frames, nobody
\* cleans up, so that no worker ends; the sink returns normally
ShortNext ==
    \/ \E t \in PaceInstants : Tick(t)
    \/ \E c \in Callers \ {1} : CallAddChunkInner(c, GoodInput[1], GoodInput[2])
    \/ \E d \in LifeDurations : n_pauses = 0 /\ CallPauseFor(1, d)
    \/ \E c \in Callers : InnerStep(c)
    \/ \E c \in Callers : PauseStep(c)
    \/ \E w \in Workers : WLoop(w) \/ WGet(w) \/ WConvert(w) \/ WWait(w)
    \/ \E w \in Workers : WWaitLock(w) \/ WWaitRem(w) \/ WWaitSleep(w) \/ WCheck(w)
    \/ \E w \in Workers : WPace(w) \/ PaceStep(w)
    \/ \E w \in Workers : WPlay(w, FALSE)

SpecShort == PaceInit /\ [][ShortNext]_vars

(* ------------------------------------------------------------------ *)
(* Properties                                                          *)
(* ------------------------------------------------------------------ *)
LiveWorkers == {w \in Workers : is_alive(w)}
\* no call is running and no worker is alive: nothing moves until the next call
Quiescent ==
    /\ \A c \in Callers : caller[c].pc = "idle"
    /\ LiveWorkers = {}
\* no exception has left _process_audio_queue
NoException == \A w \in Workers : worker[w].exc = ""

\* C1: the sink receives frames in the order they were put on the queue, and
\* no frame twice: the ids of the played frames increase strictly
C1_PlayedInEnqueueOrder ==
    \A i, j \in 1..Len(played) : i < j => played[i].id < played[j].id

\* C1 witness: with a pacing sleep of 100 ms, two frames were played in the
\* order of their puts; the first worker left on the idle timeout, the second
\* frame was played by the worker spawned after that and had waited for a pause
\* at its first poll, and a cleanup was run
C1_Witness ==
    /\ sleep_time_between_chunks_seconds > 0
    /\ Len(played) = 2
    /\ played[1].id < played[2].id
    /\ played[1].by = 1
    /\ worker[1].why = "idle"
    /\ played[2].by = 2
    /\ played[2].poll.first > now - MaxSlices * poll_slice_ms
    /\ n_cleanups > 0

\* C2: at most one worker thread is alive
C2_AtMostOneWorker == Cardinality(LiveWorkers) <= 1

\* C2 witness: a caller that saw no live thread waits for the lifecycle lock
\* while the thread another caller spawned is alive
C2_Witness ==
    \E c \in Callers :
        /\ caller[c].pc = "aci_lock"
        /\ LiveWorkers # {}

\* C3: once cleanup has returned the sink is not called until an add_chunk call
\* begins after that return
C3_NoSinkAfterCleanup ==
    \A i \in 1..Len(played) : ~played[i].quiet

\* C4: a frame that was put and not yet played when cleanup was called never
\* reaches the sink
C4_CancelledNeverPlayed == PlayedIds \cap cancelled = {}

\* C7: an exception raised by the sink does not leave the worker loop
C7_SinkErrorCaught ==
    \A w \in Workers : worker[w].exc # "SinkError"

\* C8: an exception raised by the conversion does not leave the worker loop
C8_ConversionErrorCaught ==
    \A w \in Workers :
        worker[w].exc \notin {"ValueError", "ZeroDivisionError", "audioop.error"}

\* C10: with the sink and the conversion never raising, no frame is left on the
\* queue when no call is running and no worker is alive
C10_NoStrandedFrame ==
    (Quiescent /\ NoException) => audio_queue = <<>>

\* two consecutive writes of the deadline, both by pause_for, the second call
\* made at or after the first and before the first request's deadline
TwoPauses(i) ==
    /\ i \in 1..(Len(pause_log) - 1)
    /\ pause_log[i].op = "pause_for"
    /\ pause_log[i + 1].op = "pause_for"
    /\ pause_log[i].at <= pause_log[i + 1].at
    /\ pause_log[i + 1].at < pause_log[i].at + pause_log[i].d

\* C5: after pause_for(d1) at t1 and pause_for(d2) at t2, the deadline is the
\* larger of t1 + d1 and t2 + d2 (and of the deadline found by the first call,
\* when that one reaches further), so the pause counted from t1 is shorter
\* than d1 + d2
C5_PauseIsMax ==
    \A i \in 1..(Len(pause_log) - 1) :
        TwoPauses(i) =>
            LET p1 == pause_log[i]
                p2 == pause_log[i + 1]
                both == Max(p1.at + p1.d, p2.at + p2.d)
            IN /\ p2.after = Max(p1.before, both)
               /\ p1.before <= p1.at => /\ p2.after = both
                                        /\ p2.after - p1.at < p1.d + p2.d

\* C5 witness: the second request was made later than the first, with no pause
\* pending before the first, and the two requests end at different times
C5_Witness ==
    \E i \in 1..(Len(pause_log) - 1) :
        /\ TwoPauses(i)
        /\ pause_log[i].before <= pause_log[i].at
        /\ pause_log[i].at < pause_log[i + 1].at
        /\ pause_log[i].d # pause_log[i + 1].d
        /\ pause_log[i + 1].at + pause_log[i + 1].d < pause_log[i].at + pause_log[i].d
        /\ pause_until_timestamp = pause_log[i + 1].after

\* the frames put on the queue so far that were put under a pause request
Gated(id) ==
    \/ \E i \in 1..Len(audio_queue) : audio_queue[i].id = id /\ audio_queue[i].gate > 0
    \/ \E w \in Workers : worker[w].item.id = id /\ worker[w].item.gate > 0
    \/ \E i \in 1..Len(played) : played[i].id = id /\ played[i].gate > 0

\* C6: a frame put after pause_for returned, with no cleanup, is not played
\* before the pause deadline, and once the deadline has passed and nothing is
\* running any more it has been played exactly once
C6_PlayedOnceAfterPause ==
    /\ \A i \in 1..Len(played) : played[i].gate > 0 => played[i].at >= played[i].gate
    /\ \A id \in 1..n_puts :
          (Gated(id) /\ n_cleanups = 0 /\ Quiescent /\ now >= pause_until_timestamp)
              => Cardinality({i \in 1..Len(played) : played[i].id = id}) = 1

\* C9: add_chunk with a sample rate whose frame size is not positive enqueues
\* nothing, starts no worker and slices nothing: the call never goes past the
\* loop test
C9_DegenerateRateRejected ==
    \A c \in Callers :
        (caller[c].op = "add_chunk" /\ chunk_size_bytes(caller[c].rate) <= 0)
            => caller[c].pc \in {"ac_clock", "ac_stale", "ac_now", "ac_append", "ac_loop"}

\* the frames put by an add_chunk_inner call that began after the worker had
\* ended on the idle timeout
Restarting(id) ==
    \/ \E i \in 1..Len(audio_queue) : audio_queue[i].id = id /\ audio_queue[i].restart
    \/ \E w \in Workers : worker[w].item.id = id /\ worker[w].item.restart
    \/ \E i \in 1..Len(played) : played[i].id = id /\ played[i].restart

\* C11: a frame that add_chunk completes, and hands to add_chunk_inner, after the
\* worker has ended on the idle timeout is given to the sink by a newly started
\* worker:
\* when nothing runs any more the frame has been played, and not by the first
\* worker
C11_RespawnAfterIdle ==
    /\ \A i \in 1..Len(played) : played[i].restart => played[i].by > 1
    /\ \A id \in 1..n_puts :
          (Restarting(id) /\ Quiescent) => id \in PlayedIds

\* C11 witness: the first worker ended on the idle timeout, a later add_chunk
\* completed a frame, a second worker played it and has ended in turn
C11_Witness ==
    /\ Quiescent
    /\ worker[1].why = "idle"
    /\ \E i \in 1..Len(played) : played[i].restart /\ played[i].by = 2

\* a cleanup call returns: the step from line 155 back to its caller
CleanupReturns(c) == caller[c].pc = "cl_reset" /\ caller'[c].pc = "idle"

\* C12: a cleanup called after a cleanup has returned, with no add_chunk in
\* between and no other call running when it begins, does not raise (the join of
\* line 151 never meets a thread that was not started) and returns with no live
\* worker, an empty queue and the pause deadline at zero
C12_SecondCleanupIsSafe ==
    [][\A c \in Callers :
          (caller[c].again /\ quiet) =>
              /\ caller[c].pc = "cl_join" => worker[audio_thread].pc # "unstarted"
              /\ CleanupReturns(c) =>
                    /\ LiveWorkers' = {}
                    /\ audio_queue' = <<>>
                    /\ pause_until_timestamp' = 0]_vars

\* C12 witness: a second cleanup, begun after the first had returned and with
\* no add_chunk since, is about to return; a pause was requested in between and
\* a worker had run
C12_Witness ==
    \E c \in Callers :
        /\ caller[c].again
        /\ quiet
        /\ caller[c].pc = "cl_reset"
        /\ pause_until_timestamp > 0
        /\ audio_thread # 0

\* C13: whatever add_chunk_inner calls run beside it, when cleanup returns no
\* worker thread is alive
C13_NoWorkerWhenCleanupReturns ==
    [][\A c \in Callers : CleanupReturns(c) => LiveWorkers' = {}]_vars

\* C14: the pause deadline never decreases, except that the return of cleanup
\* sets it to zero: no step of pause_for, of the worker, of add_chunk_inner or of
\* the clock lowers it
C14_DeadlineOnlyGrows ==
    [][\/ pause_until_timestamp' >= pause_until_timestamp
       \/ /\ \E c \in Callers : CleanupReturns(c)
          /\ pause_until_timestamp' = 0]_vars

\* C14 witness: a pause_for asked for less than the pending deadline and left it
\* as it was, a later cleanup reset a positive deadline, and a worker was
\* stopped
C14_Witness ==
    /\ \E i, j \in 1..Len(pause_log) :
          /\ i < j
          /\ pause_log[i].op = "pause_for"
          /\ pause_log[i].at + pause_log[i].d < pause_log[i].before
          /\ pause_log[i].after = pause_log[i].before
          /\ pause_log[j].op = "cleanup"
          /\ pause_log[j].before > 0
    /\ \E w \in Workers : worker[w].pc = "dead" /\ worker[w].why = "stop"

\* the deadlines the pause_for calls that have returned asked for
Requested ==
    {pause_log[i].at + pause_log[i].d :
        i \in {k \in 1..Len(pause_log) : pause_log[k].op = "pause_for"}}

SetMax(S) == CHOOSE m \in S : \A x \in S : x <= m

\* C15: when every pause_for call has returned and no cleanup ran, the deadline
\* is the largest of its initial value and of every (call time + duration)
\* asked for, however the calls interleaved
C15_NoRequestLost ==
    ((\A c \in Callers : caller[c].pc = "idle") /\ n_cleanups = 0)
        => pause_until_timestamp = SetMax({0} \cup Requested)

\* C15 witness: two calls overlapped, the one that read the clock first took
\* the lock last and asked for the earlier deadline; both have returned
C15_Witness ==
    /\ \A c \in Callers : caller[c].pc = "idle"
    /\ n_cleanups = 0
    /\ Len(pause_log) = 2
    /\ pause_log[2].at < pause_log[1].at
    /\ pause_log[2].at + pause_log[2].d < pause_log[1].at + pause_log[1].d

\* C16: every call of the sink receives chunk_size_bytes(output_sample_rate)
\* bytes, whatever the source rate of the add_chunk calls
C16_SinkGetsOutputFrameSize ==
    \A i \in 1..Len(played) :
        Len(played[i].bytes) = chunk_size_bytes(output_sample_rate)

\* the frames played on the repetition path: the output rate is a multiple,
\* more than once, of the frame's rate
RepeatedFrames ==
    {i \in 1..Len(played) :
        /\ played[i].rate > 0
        /\ output_sample_rate % played[i].rate = 0
        /\ output_sample_rate \div played[i].rate > 1}

\* C17: with output_sample_rate = r * rate, r > 1, the bytes given to the sink
\* hold r times as many 16-bit samples as the frame, and output sample k
\* (counted from 0) is input sample floor(k / r)
C17_SamplesRepeatedInOrder ==
    \A i \in RepeatedFrames :
        LET r == output_sample_rate \div played[i].rate
            in_samples == frombuffer(played[i].chunk)
            out_samples == frombuffer(played[i].bytes)
        IN /\ Len(played[i].bytes) = 2 * Len(out_samples)
           /\ Len(out_samples) = r * Len(in_samples)
           /\ \A k \in 0..(Len(out_samples) - 1) :
                 out_samples[k + 1] = in_samples[(k \div r) + 1]

\* C17 witness: a frame of two different samples, one of them negative, was
\* played at twice its rate
C17_Witness ==
    \E i \in RepeatedFrames :
        /\ output_sample_rate = 2 * played[i].rate
        /\ frombuffer(played[i].chunk) = <<1, -1>>

\* C18: a frame whose rate is the output rate reaches the sink byte for byte,
\* and the sink is told the output rate
C18_SameRateIsIdentity ==
    \A i \in 1..Len(played) :
        played[i].rate = output_sample_rate =>
            /\ played[i].bytes = played[i].chunk
            /\ played[i].sample_rate = output_sample_rate

\* C18 witness: a frame at the output rate, holding a negative sample, was played
C18_Witness ==
    \E i \in 1..Len(played) :
        /\ played[i].rate = output_sample_rate
        /\ played[i].chunk = <<1, 0, 255, 255>>

\* C19: a decision on a chunk whose loudness meets the resolved threshold calls
\* pause_for once, with the fixed duration (amplitude 2200 against 1500); a
\* decision on a chunk below the threshold returns without a call (amplitude
\* 800); no later step of the decision calls pause_for again
C19_AutoPauseOncePerLoudChunk ==
    [][\A c \in Callers :
          (caller[c].op = "maybe_pause" /\ caller'[c] # caller[c]) =>
              IF caller[c].pc = "mp_decide"
              THEN IF Loudness(caller[c].chunk) >= caller[c].threshold
                   THEN /\ n_pauses' = n_pauses + 1
                        /\ caller'[c].pc = "pf_lock"
                        /\ caller'[c].d = FIXED_AUTOPAUSE_DURATION
                        /\ caller'[c].t = now + FIXED_AUTOPAUSE_DURATION
                   ELSE /\ n_pauses' = n_pauses
                        /\ caller'[c] = Idle
              ELSE n_pauses' = n_pauses]_vars

\* C19 witness: the decision on a chunk of amplitude 2200 with the per-instance
\* threshold 1500 has called pause_for, which is about to store its deadline
C19_Witness ==
    \E c \in Callers :
        /\ caller[c].op = "maybe_pause"
        /\ frombuffer(caller[c].chunk) = <<2200, 2200>>
        /\ caller[c].settings = {1500}
        /\ caller[c].pc = "pf_store"

\* C20: the threshold a decision uses is the per-instance setting when there is
\* one, else the environment value when there is one, else the default
C20_ThresholdResolutionOrder ==
    \A c \in Callers :
        caller[c].op = "maybe_pause" =>
            /\ caller[c].settings # {} => caller[c].threshold \in caller[c].settings
            /\ (caller[c].settings = {} /\ caller[c].env # {})
                  => caller[c].threshold \in caller[c].env
            /\ (caller[c].settings = {} /\ caller[c].env = {})
                  => caller[c].threshold = caller[c].dflt

\* C20 witness: with no per-instance setting and the environment value 1200 a
\* chunk of amplitude 2000, below the default 3000, made the decision call
\* pause_for
C20_Witness ==
    \E c \in Callers :
        /\ caller[c].op = "maybe_pause"
        /\ caller[c].settings = {}
        /\ caller[c].env = {1200}
        /\ caller[c].dflt = 3000
        /\ frombuffer(caller[c].chunk) = <<2000, 2000>>
        /\ caller[c].pc = "pf_lock"

\* C21: the handler of a pause message calls pause_for exactly once, and the
\* argument is the duration of the message divided by 1000, in seconds (1500 ms
\* gives 3/2 s, a deadline 1500 ms after the clock); no later step of the call
\* calls pause_for again
C21_MessagePausesForSeconds ==
    [][\A c \in Callers :
          (caller[c].op = "on_message" /\ caller'[c] # caller[c]) =>
              IF caller[c].pc = "om_pause"
              THEN /\ n_pauses' = n_pauses + 1
                   /\ caller[c].msg > 0 =>
                         /\ caller'[c].pc = "pf_lock"
                         /\ caller'[c].seconds[1] * 1000
                               = caller[c].msg * caller'[c].seconds[2]
                         /\ caller'[c].t = now + caller[c].msg
                   /\ caller[c].msg <= 0 => caller'[c] = Idle
              ELSE n_pauses' = n_pauses]_vars

\* C21 witness: the message of 1500 ms made the handler call pause_for(3/2),
\* which is about to store its deadline
C21_Witness ==
    /\ \E c \in Callers :
          /\ caller[c].op = "on_message"
          /\ caller[c].msg = 1500
          /\ caller[c].seconds[1] * 2 = 3 * caller[c].seconds[2]
          /\ caller[c].pc = "pf_store"

\* an add_chunk call returns
AddChunkReturns(c) ==
    caller[c].op = "add_chunk" /\ caller[c].pc = "ac_loop" /\ caller'[c].pc = "idle"

\* C22: with a positive frame size F, every frame add_chunk hands on has F
\* bytes; when the call returns it has handed on floor(B / F) frames, B being the
\* bytes buffered once the chunk was appended, and fewer than F bytes remain
C22_WholeFramesForwarded ==
    [][\A c \in Callers :
          LET F == chunk_size_bytes(caller[c].rate)
          IN (caller[c].op = "add_chunk" /\ F > 0) =>
                /\ caller'[c].pc = "aci_put" => Len(caller'[c].frame) = F
                /\ AddChunkReturns(c) =>
                      /\ caller[c].forwarded = caller[c].buffered \div F
                      /\ Len(inner_chunk_buffer') < F]_vars

\* C22 witness: a call that found 2 bytes in the buffer and appended 3 has handed
\* on two frames of 2 bytes and is about to return with 1 byte left
C22_Witness ==
    \E c \in Callers :
        /\ caller[c].op = "add_chunk"
        /\ caller[c].pc = "ac_loop"
        /\ Len(caller[c].residue) = 2
        /\ caller[c].buffered = 5
        /\ caller[c].forwarded = 2
        /\ chunk_size_bytes(caller[c].rate) = 2
        /\ Len(inner_chunk_buffer) = 1

\* C23: add_chunk reads the clock when it begins; when that reading is more
\* than 150 ms after the last activity it empties the buffer, and else leaves it;
\* when it then appends the chunk, the buffer becomes the chunk alone after such
\* a gap, and else the bytes the call found followed by the chunk
C23_StaleResidueDiscarded ==
    [][\A c \in Callers :
          /\ (caller[c].pc = "ac_clock" /\ caller'[c].pc # "ac_clock") =>
                 caller'[c].t = now
          /\ (caller[c].pc = "ac_stale" /\ caller'[c].pc # "ac_stale") =>
                 /\ caller'[c].stale = (caller[c].t - last_chunk_time > 150)
                 /\ caller'[c].residue = inner_chunk_buffer
                 /\ inner_chunk_buffer' =
                        IF caller[c].t - last_chunk_time > 150
                        THEN <<>>
                        ELSE inner_chunk_buffer
          /\ (caller[c].pc = "ac_append" /\ caller'[c].pc # "ac_append") =>
                 inner_chunk_buffer' =
                     IF caller[c].stale
                     THEN caller[c].chunk
                     ELSE caller[c].residue \o caller[c].chunk]_vars

\* C23 witness: a call made 151 ms after the last activity found bytes in the
\* buffer, discarded them and kept its own chunk
C23_Witness ==
    \E c \in Callers :
        /\ caller[c].op = "add_chunk"
        /\ caller[c].pc = "ac_loop"
        /\ now = Epoch + 151
        /\ caller[c].stale
        /\ caller[c].residue # <<>>
        /\ inner_chunk_buffer = caller[c].chunk

\* C24: a worker that leaves its loop on the idle timeout does not end within
\* 10 s of the latest add_chunk call: when its thread ends, more than 10 s have
\* passed since the last refresh of the timestamp
C24_NoIdleExitAfterRecentChunk ==
    [][\A w \in Workers :
          (worker[w].pc = "exiting" /\ worker[w].why = "idle" /\ worker'[w].pc = "dead")
              => now - last_chunk_time > 10000]_vars

\* C25: a frame reaches the sink only after a poll of the pre-play wait that
\* found no pause remaining, so not before the deadline that poll read, however
\* often the deadline was extended during the wait; and while the last poll of
\* a worker found a pause remaining, the worker is asleep or about to poll again
C25_WaitFollowsExtendedPause ==
    /\ \A i \in 1..Len(played) :
          /\ played[i].poll.rem = 0
          /\ played[i].at >= played[i].poll.seen
          /\ played[i].at >= played[i].poll.first
    /\ \A w \in Workers :
          worker[w].poll.rem > 0 =>
              worker[w].pc \in {"wait_sleep", "wait", "wait_lock", "wait_rem", "check",
                                "exiting"}
    /\ \A w \in Workers :
          (worker[w].poll.rem > 0 /\ worker[w].pc \in {"check", "exiting"})
              => stop_audio_thread

\* C25 witness: the worker found a pause at its first poll, the pause was
\* extended while it waited, and the frame was played after the extended deadline
C25_Witness ==
    \E i \in 1..Len(played) :
        /\ played[i].poll.first > 0
        /\ played[i].poll.seen > played[i].poll.first
        /\ played[i].at >= played[i].poll.seen

\* a worker that is inside the pacing sleep of _sleep_with_interrupts
InPace(w) == worker[w].pc \in {"pace_stop", "pace_lock", "pace_rem", "pace_sleep"}

\* C26: after the sink call the worker does not sleep when the multiplier times
\* 100 ms is not positive, and else sleeps until that long after; it goes on to
\* the next dequeue before the end of the sleep only when the stop flag is set
\* or a pause is pending; it leaves at the first test that finds the flag set or
\* a pause pending; it tests both after every slice, and no slice is longer than
\* 50 ms; two frames played by one worker with no pause and no cleanup requested
\* are at least the sleep apart
C26_PacingSleep ==
    /\ [][\A w \in Workers :
            LET total == sleep_time_between_chunks_seconds * 100
            IN /\ (worker[w].pc = "pace" /\ worker'[w].pc # "pace") =>
                      IF total <= 0
                      THEN worker'[w].pc = "loop"
                      ELSE /\ worker'[w].pc = "pace_stop"
                           /\ worker'[w].end_time = now + total
               /\ (InPace(w) /\ worker'[w].pc = "loop") =>
                      \/ now >= worker[w].end_time
                      \/ stop_audio_thread
                      \/ pause_until_timestamp > now
               /\ (worker[w].pc = "pace_stop" /\ stop_audio_thread
                      /\ worker'[w] # worker[w]) => worker'[w].pc = "loop"
               /\ (worker[w].pc = "pace_rem" /\ pause_until_timestamp > now
                      /\ worker'[w] # worker[w]) => worker'[w].pc = "loop"
               /\ (worker[w].pc # "pace_sleep" /\ worker'[w].pc = "pace_sleep") =>
                      /\ worker'[w].wake - now <= 50
                      /\ worker'[w].wake <= worker[w].end_time
               /\ (worker[w].pc = "pace_sleep" /\ worker'[w].pc # "pace_sleep") =>
                      worker'[w].pc = "pace_stop"]_vars
    /\ [](n_pauses = 0 /\ n_cleanups = 0 =>
            \A i, j \in 1..Len(played) :
                (i < j /\ played[i].by = played[j].by) =>
                    played[j].at - played[i].at
                        >= sleep_time_between_chunks_seconds * 100)

\* C26 witness: with a sleep of 100 ms a worker has slept one slice of 50 ms
\* and finds that a pause was requested meanwhile: it is about to leave the sleep
C26_Witness ==
    \E w \in Workers :
        /\ sleep_time_between_chunks_seconds = 1
        /\ worker[w].pc = "pace_rem"
        /\ now = worker[w].end_time - 50
        /\ pause_until_timestamp > now

\* C27: a worker that waits in the queue pop when cleanup has set the stop flag
\* and emptied the queue stops waiting within 100 ms
C27_StopSeenWithin100ms ==
    \A c \in Callers, w \in Workers :
        (/\ caller[c].op = "cleanup"
         /\ caller[c].pc = "cl_joining"
         /\ caller[c].target = w
         /\ stop_audio_thread
         /\ worker[w].pc = "get"
         /\ audio_queue = <<>>)
            => worker[w].wake - now <= 100

\* C28: when cleanup returns, no frame that had been put when it set the stop
\* flag, its first statement, is on the queue and the deadline is zero; a frame put after a cleanup returned
\* meets, at every poll of the pre-play wait, either no deadline or one that a
\* pause_for stored after that cleanup reset it, never one stored before
C28_CleanupClearsQueueAndPause ==
    /\ [][\A c \in Callers :
            CleanupReturns(c) =>
                /\ \A i \in 1..Len(audio_queue') : audio_queue'[i].id \notin cancelled
                /\ pause_until_timestamp' = 0]_vars
    /\ [](\A w \in Workers :
            (worker[w].item.resets > 0 /\ worker[w].poll.seen > 0) =>
                \E j \in (worker[w].item.resets + 1)..Len(pause_log) :
                    /\ pause_log[j].op = "pause_for"
                    /\ pause_log[j].after = worker[w].poll.seen)

\* C28 witness: a pause was stored, a cleanup returned, and a frame put after
\* that was played before the deadline of the pause
C28_Witness ==
    \E i \in 1..Len(played) :
        /\ played[i].resets > 0
        /\ \E j \in 1..(played[i].resets - 1) :
              /\ pause_log[j].op = "pause_for"
              /\ pause_log[j].after > played[i].at

\* C29: no thread exists until a frame has been put, whatever pause_for,
\* cleanup and add_chunk calls that complete no frame have run; a thread is
\* created only by a caller inside add_chunk_inner that has put a complete frame
\* and that finds no live thread, and is started only by that caller
C29_WorkerStartedLazily ==
    /\ [](n_puts = 0 =>
            /\ audio_thread = 0
            /\ \A w \in Workers : worker[w].pc = "none")
    /\ [][\A w \in Workers :
            /\ (worker[w].pc = "none" /\ worker'[w].pc # "none") =>
                   \E c \in Callers :
                       /\ caller[c].pc = "sat_new"
                       /\ caller'[c].pc = "sat_start"
                       /\ caller[c].op \in {"add_chunk", "add_chunk_inner"}
                       /\ caller[c].frame # <<>>
                       /\ caller[c].op = "add_chunk" =>
                             Len(caller[c].frame) = chunk_size_bytes(caller[c].rate)
                       /\ \A v \in Workers :
                             worker[v].pc \in {"none", "unstarted", "dead"}
                       /\ worker'[w].pc = "unstarted"
            /\ (worker[w].pc = "unstarted" /\ worker'[w].pc # "unstarted") =>
                   \E c \in Callers :
                       /\ caller[c].pc = "sat_start"
                       /\ caller'[c].pc # "sat_start"
                       /\ audio_thread = w]_vars

\* C29 witness: after a pause_for, a cleanup and an add_chunk call that left
\* bytes in the buffer without completing a frame, the add_chunk call that put
\* the first frame has created the first thread and is about to start it
C29_Witness ==
    \E c \in Callers :
        /\ caller[c].op = "add_chunk"
        /\ caller[c].pc = "sat_start"
        /\ caller[c].residue # <<>>
        /\ n_puts = 1
        /\ n_pauses = 1
        /\ n_cleanups = 1
        /\ quiet = FALSE
        /\ \E i \in 1..Len(pause_log) : pause_log[i].op = "cleanup"
        /\ \E i \in 1..Len(pause_log) : pause_log[i].op = "pause_for"
        /\ worker[audio_thread].pc = "unstarted"

\* the places where a thread holds the lifecycle lock, and the pause lock
HoldsThreadLock(c) ==
    caller[c].pc \in {"aci_recheck", "sat_stop", "sat_new", "sat_start", "sat_end"}
CallerHoldsPauseLock(c) == caller[c].pc \in {"pf_body", "pf_store", "cl_reset"}
WorkerHoldsPauseLock(w) == worker[w].pc \in {"wait_rem", "pace_rem"}

\* C30: each lock is held by exactly the thread that is inside its with-block,
\* so by one thread at a time; no thread is inside both with-blocks; and the
\* thread that holds a lock can always take its next step, so no thread that
\* waits for a lock waits for ever
C30_LocksNeverNested ==
    /\ \A c \in Callers :
          /\ thread_lock = c <=> HoldsThreadLock(c)
          /\ pause_lock = c <=> CallerHoldsPauseLock(c)
          /\ ~(thread_lock = c /\ pause_lock = c)
    /\ \A w \in Workers : pause_lock = -w <=> WorkerHoldsPauseLock(w)
    /\ thread_lock \in Callers =>
          ENABLED (\/ AciRecheck(thread_lock) \/ SatStop(thread_lock)
                   \/ SatNew(thread_lock) \/ SatStart(thread_lock)
                   \/ SatEnd(thread_lock))
    /\ pause_lock \in Callers =>
          ENABLED (PfBody(pause_lock) \/ PfStore(pause_lock) \/ ClReset(pause_lock))
    /\ -pause_lock \in Workers =>
          ENABLED (WWaitRem(-pause_lock) \/ WPaceRem(-pause_lock))

\* C30 witness: one caller holds the lifecycle lock in add_chunk_inner while
\* another holds the pause lock in pause_for and the worker waits for that lock
C30_Witness ==
    \E c, p \in Callers, w \in Workers :
        /\ thread_lock = c
        /\ caller[c].pc = "aci_recheck"
        /\ pause_lock = p
        /\ caller[p].pc = "pf_store"
        /\ worker[w].pc = "wait_lock"

\* C31: a pause_for call with a duration of 0 or less returns at once and leaves
\* the deadline, the queue, the buffer, the stop flag, the thread and the
\* timestamp as they were, so a pending pause keeps its deadline; no call that
\* goes on to the store, and no stored request, has such a duration
C31_NonPositivePauseIsNoop ==
    /\ [][\A c \in Callers, d \in {-50, 0} :
            CallPauseFor(c, d) =>
                /\ caller'[c] = Idle
                /\ UNCHANGED <<pause_until_timestamp, audio_queue, inner_chunk_buffer,
                               stop_audio_thread, audio_thread, worker,
                               last_chunk_time, pause_log>>]_vars
    /\ [](/\ \A c \in Callers : caller[c].op = "pause_for" => caller[c].d > 0
          /\ \A i \in 1..Len(pause_log) :
                pause_log[i].op = "pause_for" => pause_log[i].d > 0)

\* C31 witness: two pause_for calls have been made and returned; one stored a
\* deadline that is still pending, the other stored nothing, while a worker
\* holds a frame in its pre-play wait and a byte is left in the buffer
C31_Witness ==
    /\ n_pauses = 2
    /\ caller[1].pc = "idle"
    /\ Len(pause_log) = 1
    /\ pause_log[1].op = "pause_for"
    /\ pause_until_timestamp = pause_log[1].after
    /\ pause_until_timestamp > now
    /\ inner_chunk_buffer # <<>>
    /\ \E w \in Workers : worker[w].pc = "wait_sleep"

\* a step of a pause_for call: its beginning, or a later step of it
PauseForStep ==
    \E c \in Callers :
        /\ caller'[c] # caller[c]
        /\ caller[c].op = "pause_for" \/ caller'[c].op = "pause_for"

\* the frames put before the first pause was stored, when a pause has been
\* requested since
PutBeforePause(id) == pause_log # <<>> /\ ~Gated(id)

\* the frames put under a deadline that lies at or after the present instant:
\* they were put while that pause was still pending
PutDuringPause(id) ==
    \/ \E i \in 1..Len(audio_queue) : audio_queue[i].id = id /\ audio_queue[i].gate >= now
    \/ \E w \in Workers : worker[w].item.id = id /\ worker[w].item.gate >= now
    \/ \E i \in 1..Len(played) : played[i].id = id /\ played[i].gate >= now

\* C32: no step of pause_for changes the queue, the buffer, the timestamp, the
\* stop flag, the thread handle or the worker; frames are played in the order of
\* the puts and never before the deadline they were put under; and, with no
\* cleanup, once the pause has expired and nothing runs any more, every frame that
\* was put before or during a pause has been played
C32_PauseOnlyDelays ==
    /\ [][PauseForStep =>
            UNCHANGED <<audio_queue, inner_chunk_buffer, last_chunk_time,
                        stop_audio_thread, audio_thread, worker, played>>]_vars
    /\ [](/\ \A i, j \in 1..Len(played) : i < j => played[i].id < played[j].id
          /\ \A i \in 1..Len(played) : played[i].at >= played[i].gate
          /\ (Quiescent /\ n_cleanups = 0 /\ now >= pause_until_timestamp)
                => \A id \in 1..n_puts :
                      (PutBeforePause(id) \/ PutDuringPause(id)) => id \in PlayedIds)

\* the bytes each conversion path gives for the frame played at position i
ByIdentity(i) == played[i].chunk
ByRepetition(i) ==
    tobytes(repeat(frombuffer(played[i].chunk), output_sample_rate \div played[i].rate))
ByFallback(i) == ratecv(played[i].chunk, played[i].rate, output_sample_rate).bytes

\* C33: a frame at the output rate reaches the sink unchanged; a frame whose rate
\* divides the output rate more than once reaches it with its samples repeated;
\* every other frame of positive rate, a frame above the output rate included,
\* reaches it as the rate conversion of the fallback gives it
C33_PathByRates ==
    \A i \in 1..Len(played) :
        played[i].rate > 0 =>
            played[i].bytes =
                IF played[i].rate = output_sample_rate
                THEN ByIdentity(i)
                ELSE IF i \in RepeatedFrames
                THEN ByRepetition(i)
                ELSE ByFallback(i)

\* C33 witness: a frame above the output rate and a frame whose rate divides it
\* were both played, and for each the two other paths give other bytes than the
\* path of the claim
C33_Witness ==
    \E i, j \in 1..Len(played) :
        /\ i \in RepeatedFrames
        /\ played[j].rate > output_sample_rate
        /\ ByRepetition(i) \notin {ByIdentity(i), ByFallback(i)}
        /\ ByFallback(j) \notin {ByIdentity(j), ByRepetition(j)}

\* C34: an add_chunk call with a positive frame size that found no gap longer
\* than 150 ms returns with the bytes it put on the queue, followed by the buffer
\* it leaves, equal to the buffer it found followed by its chunk; the bytes a put
\* adds to the queue are the bytes counted as sent; and no step outside add_chunk
\* changes the buffer, so that the next call finds what this one left
C34_BytesConserved ==
    [][/\ \A c \in Callers :
             (AddChunkReturns(c) /\ ~caller[c].stale
                 /\ chunk_size_bytes(caller[c].rate) > 0) =>
                   caller[c].sent \o inner_chunk_buffer'
                       = caller[c].residue \o caller[c].chunk
       /\ \A c \in Callers :
             (caller[c].pc = "aci_put" /\ caller'[c].pc # "aci_put") =>
                 /\ Len(audio_queue') = Len(audio_queue) + 1
                 /\ caller'[c].sent
                       = caller[c].sent \o audio_queue'[Len(audio_queue')].chunk
       /\ (\A c \in Callers : caller[c].op # "add_chunk") =>
             inner_chunk_buffer' = inner_chunk_buffer]_vars

\* C34 witness: the second of two calls at rate 20, 150 ms or less apart, found
\* the three bytes of the first, has put one frame of four bytes and is about to
\* return with two bytes left
C34_Witness ==
    \E c \in Callers :
        /\ caller[c].op = "add_chunk"
        /\ caller[c].pc = "ac_loop"
        /\ caller[c].rate = 20
        /\ ~caller[c].stale
        /\ caller[c].residue = <<3, 0, 4>>
        /\ caller[c].chunk = <<3, 0, 4>>
        /\ caller[c].sent = <<3, 0, 4, 3>>
        /\ inner_chunk_buffer = <<0, 4>>
        /\ n_chunks = 2

\* C35: every frame add_chunk puts on the queue, and every byte string the sink
\* receives for a frame at the output rate, has an even number of bytes
C35_FramesHoldWholeSamples ==
    /\ \A i \in 1..Len(audio_queue) : Len(audio_queue[i].chunk) % 2 = 0
    /\ \A i \in 1..Len(played) :
          played[i].rate = output_sample_rate => Len(played[i].bytes) % 2 = 0

\* C36: while a cleanup call is past the line that sets the stop flag and has
\* not returned, the stop flag is set
C36_StopKeptDuringCleanup ==
    \A c \in Callers :
        (caller[c].op = "cleanup" /\ caller[c].pc # "cl_stop") => stop_audio_thread

\* C37: two frames played one after the other by one worker are at least the
\* pacing sleep, the multiplier times 100 ms, apart, whether or not a pause was
\* requested between them
C37_PauseNeverHastens ==
    \A i \in 1..(Len(played) - 1) :
        played[i].by = played[i + 1].by =>
            played[i + 1].at - played[i].at
                >= sleep_time_between_chunks_seconds * chunk_length_ms

\* the rate a byte of the two sources was supplied at
SuppliedAt(byte) == IF byte < 10 THEN 10 ELSE 20

\* C38: every frame on the queue holds only bytes that were supplied at the rate
\* the frame is labelled with
C38_FrameBytesOfItsRate ==
    \A i \in 1..Len(audio_queue) :
        \A k \in 1..Len(audio_queue[i].chunk) :
            SuppliedAt(audio_queue[i].chunk[k]) = audio_queue[i].rate

====
